---------------------------- MODULE Spec2Model ----------------------------
(***************************************************************************)
(* Nomo7: seeded nonogram generation (client, backend validator and the    *)
(* seed-pool script), the line-constraint solver and the seed-pool run.    *)
(*                                                                         *)
(* Numbers.  A 32-bit word is the pair <<hi, lo>> of its 16-bit halves, so *)
(* that every intermediate value stays below 2^31.  A density is written   *)
(* in hundredths (0.57 is 57), and a value of the random stream is the     *)
(* word w standing for w / 2^32; the products and comparisons of the       *)
(* generators are computed exactly on these fractions.                     *)
(***************************************************************************)
EXTENDS Integers, Sequences, FiniteSets, TLC

(***************************************************************************)
(* Bounds of the model.                                                    *)
(***************************************************************************)
\* seeds 0..MaxSeed are tried by the generator specifications
MaxSeed == 15
\* grid sizes 1..MaxGenSize are generated
MaxGenSize == 4
\* seeds 0..MaxPlaySeed can be typed, drawn from the pool or carried by a
\* challenge link
MaxPlaySeed == 3
\* sizes 1..MaxPlaySize can be selected (the size parameter of the URL)
MaxPlaySize == 3
\* the daily puzzle is started on the days 1..MaxDay of February 2026
MaxDay == 2
\* SpecDaily: the clock runs over the instants 0..MaxNow, two per UTC day
\* (00:00 and 12:00), the first being 2026-02-01T00:00Z
MaxNow == 7
\* the number of browsers in daily mode
MaxClients == 2
\* localStorage holds no solved daily puzzle, or the one of a day 1..MaxSolvedDay
MaxSolvedDay == 2
\* the solver is run on the clues of every 0/1 grid of size 1..MaxSolveSize
MaxSolveSize == 3
\* and on arbitrary lists of hints for the sizes 1..MaxHintSize: each line
\* gets up to MaxHints hints, each in 0..MaxHint
MaxHintSize == 2
MaxHints == 2
MaxHint == 2
\* lines are processed in any order on the clues of every 0/1 grid of size
\* 1..MaxOrderSize
MaxOrderSize == 3
\* run() of the seed script: the grid sizes MaxPoolSize - 1 and MaxPoolSize
\* stand for GRID_SIZES, the seeds 0..MaxPoolSeed for the 2,000,000,000
\* values of Math.floor(Math.random() * 2000000000), SEEDS_PER_CONFIG for the
\* 10 seeds wanted per configuration and MaxAttempts for the 5000 attempts
\* allowed per configuration
MaxPoolSize == 3
MaxPoolSeed == 1
SEEDS_PER_CONFIG == 2
MaxAttempts == 2

\* SpecLine: solver lines of 1..MaxLineLen cells, with the hint lists of
\* SpecSolve, and grid lines of 0..MaxCellsLen cells
MaxLineLen == 4
MaxCellsLen == 7

\* SpecGame: the sizes 1..MaxGameSize the size selector and the URL can name,
\* random and challenge seeds 0..MaxGameSeed, the timer 0..MaxTimer seconds,
\* MaxEvents events after the mount (calls of the mouse handlers, of
\* handleBlast, of startNewGame and restartCurrentGame, and timer ticks; the
\* callbacks of Blast and the end of startNewGame are not counted), MaxBlasts
\* uses of Blast and MaxStartsInFlight calls of startNewGame waiting for
\* generatePuzzle
MaxGameSize == 2
MaxGameSeed == 1
MaxTimer == 1
MaxEvents == 4
MaxBlasts == 1
MaxStartsInFlight == 1

\* SpecValidate: sizes 1..MaxValSize and seeds 0..MaxValSeed in the puzzle
\* identifiers, histories of at most MaxMoves moves, times 0..MaxTime
MaxValSize == 2
MaxValSeed == 1
MaxMoves == 2
MaxTime == 1

(***************************************************************************)
(* State.  Each part of the program has its own record; a specification    *)
(* moves one of them and leaves the others at Off.                         *)
(*   gen   one seed given to the client and to the backend generator       *)
(*   play  a puzzle started by the client and its identifier at the backend*)
(*   sol   one NonogramSolver / Solver object and the position of solve()  *)
(*   ord   a solver grid to which lines are applied in any order           *)
(*   run   the seed-pool script's run()                                    *)
(*   val   one call of validateSolution on a request body                  *)
(*   day   the clock and the browsers that are in daily mode               *)
(*   lin   one line given to the functions that work on a single line      *)
(*   game  the state of the useGameLogic hook of one browser tab           *)
(***************************************************************************)
VARIABLES gen, play, sol, ord, run, val, day, lin, game

vars == <<gen, play, sol, ord, run, val, day, lin, game>>

Off == [pc |-> "off"]

(***************************************************************************)
(* Cell states (types.ts / validation.js / generate-seeds.cjs CellState).  *)
(***************************************************************************)
EMPTY == 0
FILLED == 1
CROSSED == 2

\* NaN, what parseInt gives for a string that holds no number; the strings the
\* model parses hold no negative number, so -1 stands for NaN alone
NaN == -1

(***************************************************************************)
(* 32-bit arithmetic of the JavaScript operators used by mulberry32.       *)
(***************************************************************************)
RECURSIVE XorBits(_, _, _)
\* a ^ b on n-bit operands
XorBits(a, b, n) ==
    IF n = 0 THEN 0
    ELSE (((a % 2) + (b % 2)) % 2) + 2 * XorBits(a \div 2, b \div 2, n - 1)

RECURSIVE OrBits(_, _, _)
\* a | b on n-bit operands
OrBits(a, b, n) ==
    IF n = 0 THEN 0
    ELSE (IF a % 2 = 1 \/ b % 2 = 1 THEN 1 ELSE 0)
         + 2 * OrBits(a \div 2, b \div 2, n - 1)

\* a non-negative number below 2^31 as a 32-bit word
ToWord(n) == <<n \div 65536, n % 65536>>

\* a ^ b
Xor32(a, b) == <<XorBits(a[1], b[1], 16), XorBits(a[2], b[2], 16)>>

\* a | c for a constant c < 2^16
OrSmall(a, c) == <<a[1], OrBits(a[2], c, 16)>>

\* a >>> k for 0 < k < 16
Shr32(a, k) ==
    LET p == 2 ^ k
        q == 2 ^ (16 - k)
    IN  <<a[1] \div p, (a[2] \div p) + ((a[1] % p) * q)>>

\* (a + b) mod 2^32
Add32(a, b) ==
    LET lo == a[2] + b[2]
    IN  <<(a[1] + b[1] + (lo \div 65536)) % 65536, lo % 65536>>

\* the low 16 bits of x * y, for 16-bit x and y
MulLow16(x, y) ==
    ((x * (y % 256)) + (((x * (y \div 256)) % 256) * 256)) % 65536

\* Math.imul(a, b): the low 32 bits of a * b
Imul(a, b) ==
    LET X == a[2] * (b[2] % 256)
        Y == a[2] * (b[2] \div 256)
        S == X + ((Y % 256) * 256)
        lolo == <<(S \div 65536) + (Y \div 256), S % 65536>>
    IN  <<(lolo[1] + MulLow16(a[1], b[2]) + MulLow16(a[2], b[1])) % 65536,
          lolo[2]>>

(***************************************************************************)
(* mulberry32 (services/geminiService.ts).  The closure adds 0x6D2B79F5 to *)
(* seed on every call, so the k-th call (k >= 1) mixes seed + k*0x6D2B79F5.*)
(* The result is the word w of the returned w / 4294967296.                *)
(***************************************************************************)
\* t ^ (t >>> k)
XorShr(t, k) == Xor32(t, Shr32(t, k))

\* let t = (seed += 0x6D2B79F5) | 0, at the k-th call
clientState(seed, k) == Add32(ToWord(seed), Imul(ToWord(k), <<27947, 31221>>))

\* t = Math.imul(t ^ (t >>> 15), t | 1)
clientMix1(t) == Imul(XorShr(t, 15), OrSmall(t, 1))

\* t ^= t + Math.imul(t ^ (t >>> 7), t | 61)
clientMix2(t) == Xor32(t, Add32(t, Imul(XorShr(t, 7), OrSmall(t, 61))))

\* ((t ^ (t >>> 14)) >>> 0) / 4294967296
clientMix3(t) == XorShr(t, 14)

mulberry32(seed, k) == clientMix3(clientMix2(clientMix1(clientState(seed, k))))

\* Random.next(): the k-th value of the stream of new Random(seed)
Random_next(seed, k) == mulberry32(seed, k)

(***************************************************************************)
(* mulberry32 / seededRandom (backend/validation.js).                      *)
(***************************************************************************)
backendState(seed, k) ==
    IF seed = NaN THEN ToWord(0)
    ELSE Add32(ToWord(seed), Imul(ToWord(k), <<27947, 31221>>))

backendMix1(t) == Imul(Xor32(t, Shr32(t, 15)), OrSmall(t, 1))

backendMix2(t) == Xor32(t, Add32(t, Imul(Xor32(t, Shr32(t, 7)), OrSmall(t, 61))))

backendMix3(t) == Xor32(t, Shr32(t, 14))

mulberry32_backend(seed, k) ==
    backendMix3(backendMix2(backendMix1(backendState(seed, k))))

\* a first mixing step that shifts by 16 where mulberry32 shifts by 15
backendMix1_shift16(t) == Imul(Xor32(t, Shr32(t, 16)), OrSmall(t, 1))

\* the backend drawing from the stream mixed that way
seededRandom_shift16(seed, k) ==
    backendMix3(backendMix2(backendMix1_shift16(backendState(seed, k))))

seededRandom(seed, k) == mulberry32_backend(seed, k)

(***************************************************************************)
(* Exact arithmetic on stream values and densities.                        *)
(***************************************************************************)
\* minDensity + w/2^32 * (maxDensity - minDensity), as the pair <<H, L>>
\* standing for (H * 2^16 + L) / (100 * 2^32)
DensityOf(minDensity, maxDensity, w) ==
    LET d == maxDensity - minDensity
    IN  <<(minDensity * 65536) + (d * w[1]) + ((d * w[2]) \div 65536),
          (d * w[2]) % 65536>>

\* Math.floor(totalCells * targetDensity)
FloorTimes(totalCells, td) ==
    ((totalCells * td[1]) + ((totalCells * td[2]) \div 65536)) \div 6553600

\* w/2^32 < targetDensity
Below(w, td) ==
    LET h == (100 * w[1]) + ((100 * w[2]) \div 65536)
        l == (100 * w[2]) % 65536
    IN  h < td[1] \/ (h = td[1] /\ l < td[2])

\* Math.floor(w/2^32 * m) for a small positive m
FloorScaled(w, m) == ((w[1] * m) + ((w[2] * m) \div 65536)) \div 65536

(***************************************************************************)
(* Difficulty tables.  Densities are in hundredths.                        *)
(***************************************************************************)
DIFFICULTY_LEVELS == <<"VERY_EASY", "EASY", "MEDIUM", "HARD", "VERY_HARD">>

\* gameConfig.ts (client)
DIFFICULTY_CONFIG ==
    [VERY_EASY |-> [minDensity |-> 63, maxDensity |-> 70],
     EASY      |-> [minDensity |-> 57, maxDensity |-> 62],
     MEDIUM    |-> [minDensity |-> 53, maxDensity |-> 58],
     HARD      |-> [minDensity |-> 48, maxDensity |-> 52],
     VERY_HARD |-> [minDensity |-> 40, maxDensity |-> 48]]

\* gameConfig.ts (client), the daily tier
DAILY_DIFFICULTY_CONFIG == [minDensity |-> 52, maxDensity |-> 58]

\* backend/validation.js
DIFFICULTY_CONFIG_backend ==
    [VERY_EASY |-> [minDensity |-> 60, maxDensity |-> 79],
     EASY      |-> [minDensity |-> 55, maxDensity |-> 60],
     MEDIUM    |-> [minDensity |-> 53, maxDensity |-> 58],
     HARD      |-> [minDensity |-> 40, maxDensity |-> 50],
     VERY_HARD |-> [minDensity |-> 10, maxDensity |-> 30]]

\* scripts/generate-seeds.cjs
DIFFICULTY_CONFIG_script ==
    [VERY_EASY |-> [minDensity |-> 60, maxDensity |-> 79],
     EASY      |-> [minDensity |-> 55, maxDensity |-> 60],
     MEDIUM    |-> [minDensity |-> 53, maxDensity |-> 58],
     HARD      |-> [minDensity |-> 40, maxDensity |-> 50],
     VERY_HARD |-> [minDensity |-> 10, maxDensity |-> 30]]

(***************************************************************************)
(* Grids are functions [0..size-1 -> [0..size-1 -> cell]], indexed [y][x]  *)
(* as in the code.                                                         *)
(***************************************************************************)
(***************************************************************************)
(* A loop of the code over a range of indices is written as the loop over  *)
(* the first half of the range followed by the loop over the second half:  *)
(* the steps and their order are those of the code, and the evaluation of  *)
(* a 20x20 grid nests 9 levels deep instead of 400.                        *)
(***************************************************************************)
RECURSIVE SumOver(_, _, _, _)
\* the sum of grid[i \div size][i % size] for lo <= i < hi
SumOver(grid, size, lo, hi) ==
    IF hi <= lo THEN 0
    ELSE IF hi = lo + 1 THEN grid[lo \div size][lo % size]
    ELSE LET mid == (lo + hi) \div 2
         IN  SumOver(grid, size, lo, mid) + SumOver(grid, size, mid, hi)

\* the sum of grid[i \div size][i % size] for i < n
SumTo(grid, size, n) == SumOver(grid, size, 0, n)

\* grid.forEach(row => row.forEach(val => count += val))
FillCount(grid, size) == SumTo(grid, size, size * size)

\* the list coords: {y, x} pushed in row-major order, indexed from 0
RowMajorCoords(size) ==
    [i \in 0..(size * size - 1) |-> [y |-> i \div size, x |-> i % size]]

(***************************************************************************)
(* generatePuzzle (services/geminiService.ts).  Draw 1 of the stream gives *)
(* targetDensity, draws 2..size^2+1 the noise in row-major order, and the  *)
(* following size^2-1 draws the shuffle, for i = size^2-1 down to 1.       *)
(***************************************************************************)
RECURSIVE clientSwaps(_, _, _, _, _)
\* the steps i = hi down to i = lo of the Fisher-Yates loop; draw k serves
\* step hi
clientSwaps(coords, hi, lo, seed, k) ==
    IF hi < lo \/ hi \notin DOMAIN coords THEN coords
    ELSE IF hi = lo
    THEN LET j == FloorScaled(Random_next(seed, k), hi + 1)
         IN  [coords EXCEPT ![hi] = coords[j], ![j] = coords[hi]]
    ELSE LET mid == (lo + hi + 1) \div 2
         IN  clientSwaps(clientSwaps(coords, hi, mid, seed, k),
                         mid - 1, lo, seed, k + (hi - mid + 1))

\* the Fisher-Yates loop from index i down; k numbers the next draw
clientShuffle(coords, i, seed, k) == clientSwaps(coords, i, 1, seed, k)

RECURSIVE clientRemove_unchecked(_, _, _, _, _)
\* a removal loop that counts every visited cell, filled or not
clientRemove_unchecked(grid, coords, idx, n, diff) ==
    IF idx >= n \/ diff = 0 THEN grid
    ELSE clientRemove_unchecked([grid EXCEPT ![coords[idx].y][coords[idx].x] = 0],
                                coords, idx + 1, n, diff - 1)

RECURSIVE clientRemoveOver(_, _, _, _)
\* the iterations lo <= idx < hi of the removal loop, on st = [grid, diff]
clientRemoveOver(st, coords, lo, hi) ==
    IF hi <= lo \/ st.diff = 0 THEN st
    ELSE IF hi = lo + 1
    THEN LET y == coords[lo].y
             x == coords[lo].x
         IN  IF st.grid[y][x] = 1
             THEN [grid |-> [st.grid EXCEPT ![y][x] = 0], diff |-> st.diff - 1]
             ELSE st
    ELSE LET mid == (lo + hi) \div 2
         IN  clientRemoveOver(clientRemoveOver(st, coords, lo, mid), coords, mid, hi)

\* diff > 0: turn the first diff filled cells of coords, from idx on, to 0
clientRemove(grid, coords, idx, n, diff) ==
    clientRemoveOver([grid |-> grid, diff |-> diff], coords, idx, n).grid

RECURSIVE clientAdd_unchecked(_, _, _, _, _)
\* a filling loop that counts every visited cell, empty or not
clientAdd_unchecked(grid, coords, idx, n, diff) ==
    IF idx >= n \/ diff = 0 THEN grid
    ELSE clientAdd_unchecked([grid EXCEPT ![coords[idx].y][coords[idx].x] = 1],
                             coords, idx + 1, n, diff + 1)

RECURSIVE clientAddOver(_, _, _, _)
\* the iterations lo <= idx < hi of the filling loop, on st = [grid, diff]
clientAddOver(st, coords, lo, hi) ==
    IF hi <= lo \/ st.diff = 0 THEN st
    ELSE IF hi = lo + 1
    THEN LET y == coords[lo].y
             x == coords[lo].x
         IN  IF st.grid[y][x] = 0
             THEN [grid |-> [st.grid EXCEPT ![y][x] = 1], diff |-> st.diff + 1]
             ELSE st
    ELSE LET mid == (lo + hi) \div 2
         IN  clientAddOver(clientAddOver(st, coords, lo, mid), coords, mid, hi)

\* diff < 0: turn the first |diff| empty cells of coords, from idx on, to 1
clientAdd(grid, coords, idx, n, diff) ==
    clientAddOver([grid |-> grid, diff |-> diff], coords, idx, n).grid

\* const targetDensity = difficulty.minDensity + rng.next() * (max - min)
clientTargetDensity(seed, difficulty) ==
    DensityOf(difficulty.minDensity, difficulty.maxDensity, Random_next(seed, 1))

\* const targetFillCount = Math.floor(totalCells * targetDensity)
clientTargetFillCount(seed, size, difficulty) ==
    FloorTimes(size * size, clientTargetDensity(seed, difficulty))

\* 1. Initial Noise: grid[y][x] = rng.bool(targetDensity) ? 1 : 0
clientNoiseAt(seed, size, targetDensity) ==
    [y \in 0..(size - 1) |-> [x \in 0..(size - 1) |->
        IF Below(Random_next(seed, 2 + y * size + x), targetDensity) THEN 1 ELSE 0]]

clientNoise(seed, size, difficulty) ==
    clientNoiseAt(seed, size, clientTargetDensity(seed, difficulty))

\* the shuffled coords
clientCoords(seed, size) ==
    clientShuffle(RowMajorCoords(size), size * size - 1, seed, size * size + 2)

\* 2. Density Correction, the two loops over coords
clientCorrect(grid, coords, size, diff) ==
    IF diff > 0 THEN clientRemove(grid, coords, 0, size * size, diff)
    ELSE IF diff < 0 THEN clientAdd(grid, coords, 0, size * size, diff)
    ELSE grid

\* 2. Density Correction, from the noise grid
clientCorrectNoise(noise, seed, size, targetFillCount) ==
    clientCorrect(noise, clientCoords(seed, size), size,
                  FillCount(noise, size) - targetFillCount)

clientCorrected(seed, size, difficulty) ==
    clientCorrectNoise(clientNoise(seed, size, difficulty), seed, size,
                       clientTargetFillCount(seed, size, difficulty))

\* 3. Safety check, the two if statements
clientSafety(grid, size, currentFillCount, targetFillCount) ==
    LET g1 == IF currentFillCount = 0 /\ targetFillCount > 0
              THEN [grid EXCEPT ![size \div 2][size \div 2] = 1] ELSE grid
    IN  IF currentFillCount = size * size /\ targetFillCount < size * size
        THEN [g1 EXCEPT ![0][0] = 0] ELSE g1

\* 3. Safety check, with the recount of the corrected grid
clientSafetyCheck(grid, size, targetFillCount) ==
    clientSafety(grid, size, FillCount(grid, size), targetFillCount)

\* a generatePuzzle that returns the noise grid, without the correction and
\* the safety check
clientGrid_noiseOnly(seed, size, targetDensity) ==
    clientNoiseAt(seed, size, targetDensity)

\* the body of generatePuzzle after targetDensity is drawn
clientGrid(seed, size, targetDensity) ==
    clientSafetyCheck(
        clientCorrectNoise(clientNoiseAt(seed, size, targetDensity), seed, size,
                           FloorTimes(size * size, targetDensity)),
        size, FloorTimes(size * size, targetDensity))

generatePuzzle(seed, size, difficulty) ==
    [grid |-> clientGrid(seed, size, clientTargetDensity(seed, difficulty)),
     size |-> size, seed |-> seed]

(***************************************************************************)
(* generateTargetGrid (backend/validation.js).                             *)
(***************************************************************************)
RECURSIVE backendShuffle(_, _, _, _)
\* Shuffle coordinates deterministicly
backendShuffle(coords, i, seed, k) ==
    IF i < 1 THEN coords
    ELSE LET j == FloorScaled(seededRandom(seed, k), i + 1)
         IN  backendShuffle([coords EXCEPT ![i] = coords[j], ![j] = coords[i]],
                            i - 1, seed, k + 1)

RECURSIVE backendRemove(_, _, _, _, _)
\* if (diff > 0): the loop over coords
backendRemove(grid, coords, idx, n, diff) ==
    IF idx >= n \/ diff = 0 THEN grid
    ELSE LET y == coords[idx].y
             x == coords[idx].x
         IN  IF grid[y][x] = 1
             THEN backendRemove([grid EXCEPT ![y][x] = 0], coords, idx + 1, n, diff - 1)
             ELSE backendRemove(grid, coords, idx + 1, n, diff)

RECURSIVE backendAdd(_, _, _, _, _)
\* else if (diff < 0): the loop over coords
backendAdd(grid, coords, idx, n, diff) ==
    IF idx >= n \/ diff = 0 THEN grid
    ELSE LET y == coords[idx].y
             x == coords[idx].x
         IN  IF grid[y][x] = 0
             THEN backendAdd([grid EXCEPT ![y][x] = 1], coords, idx + 1, n, diff + 1)
             ELSE backendAdd(grid, coords, idx + 1, n, diff)

\* const targetDensity = difficulty.minDensity + rng() * (max - min)
backendTargetDensity(seed, difficulty) ==
    DensityOf(difficulty.minDensity, difficulty.maxDensity, seededRandom(seed, 1))

\* const targetFillCount = Math.floor(totalCells * targetDensity)
backendTargetFillCount(seed, size, difficulty) ==
    FloorTimes(size * size, backendTargetDensity(seed, difficulty))

\* 1. Initial Noise
backendNoiseAt(seed, size, targetDensity) ==
    [y \in 0..(size - 1) |-> [x \in 0..(size - 1) |->
        IF Below(seededRandom(seed, 2 + y * size + x), targetDensity) THEN 1 ELSE 0]]

\* 2. Density Correction, the two loops over coords
backendCorrect(grid, coords, size, diff) ==
    IF diff > 0 THEN backendRemove(grid, coords, 0, size * size, diff)
    ELSE IF diff < 0 THEN backendAdd(grid, coords, 0, size * size, diff)
    ELSE grid

\* 2. Density Correction, from the noise grid
backendCorrectNoise(noise, seed, size, targetFillCount) ==
    backendCorrect(noise,
                   backendShuffle(RowMajorCoords(size), size * size - 1, seed,
                                  size * size + 2),
                   size, FillCount(noise, size) - targetFillCount)

\* 3. Safety Check, the two if statements
backendSafety(grid, size, finalFillCount, targetFillCount) ==
    LET g1 == IF finalFillCount = 0 /\ targetFillCount > 0
              THEN [grid EXCEPT ![size \div 2][size \div 2] = 1] ELSE grid
    IN  IF finalFillCount = size * size /\ targetFillCount < size * size
        THEN [g1 EXCEPT ![0][0] = 0] ELSE g1

\* the body of generateTargetGrid after targetDensity is drawn
backendGrid(seed, size, targetDensity) ==
    LET corrected == backendCorrectNoise(backendNoiseAt(seed, size, targetDensity),
                                         seed, size,
                                         FloorTimes(size * size, targetDensity))
    IN  backendSafety(corrected, size, FillCount(corrected, size),
                      FloorTimes(size * size, targetDensity))

generateTargetGrid(seed, size, difficulty) ==
    backendGrid(seed, size, backendTargetDensity(seed, difficulty))

(***************************************************************************)
(* SpecGen: one (seed, size, density range) given to generatePuzzle and to *)
(* generateTargetGrid.                                                     *)
(***************************************************************************)
Keys == {DIFFICULTY_LEVELS[i] : i \in 1..Len(DIFFICULTY_LEVELS)}

\* the ranges of the tables, and the extreme ranges
DensityRanges ==
    {DIFFICULTY_CONFIG[k] : k \in Keys}
    \cup {DIFFICULTY_CONFIG_backend[k] : k \in Keys}
    \cup {DAILY_DIFFICULTY_CONFIG}
    \cup {[minDensity |-> 0, maxDensity |-> 0],
          [minDensity |-> 0, maxDensity |-> 100],
          [minDensity |-> 100, maxDensity |-> 100]}

\* Array(size).fill(0).map(() => Array(size).fill(0))
ZeroGrid(size) == [y \in 0..(size - 1) |-> [x \in 0..(size - 1) |-> 0]]

GenInit ==
    /\ \E seed \in 0..MaxSeed, size \in 1..MaxGenSize, difficulty \in DensityRanges :
          gen = [seed |-> seed, size |-> size, difficulty |-> difficulty,
                 clientPc |-> "idle", client |-> ZeroGrid(size),
                 serverPc |-> "idle", server |-> ZeroGrid(size),
                 scriptPc |-> "idle", script |-> ZeroGrid(size)]
    /\ play = Off /\ sol = Off /\ ord = Off /\ run = Off /\ val = Off /\ day = Off /\ lin = Off /\ game = Off

\* the client calls generatePuzzle(seed, size, difficulty)
ClientGenerate ==
    /\ gen.clientPc = "idle"
    /\ gen' = [gen EXCEPT !.clientPc = "done",
                          !.client = generatePuzzle(gen.seed, gen.size, gen.difficulty).grid]
    /\ UNCHANGED <<play, sol, ord, run, val, day, lin, game>>

\* the backend calls generateTargetGrid(seed, size, difficulty)
ServerGenerate ==
    /\ gen.serverPc = "idle"
    /\ gen' = [gen EXCEPT !.serverPc = "done",
                          !.server = generateTargetGrid(gen.seed, gen.size, gen.difficulty)]
    /\ UNCHANGED <<play, sol, ord, run, val, day, lin, game>>

(***************************************************************************)
(* C1: for every seed, size and density range, generatePuzzle and          *)
(* generateTargetGrid return cell-for-cell identical grids.                *)
(***************************************************************************)
C1_SameGrid ==
    (gen.clientPc = "done" /\ gen.serverPc = "done") => gen.client = gen.server

\* both generators have returned a grid that needed the correction pass
C1_Witness ==
    /\ gen.clientPc = "done" /\ gen.serverPc = "done"
    /\ gen.size >= 3
    /\ gen.client /= clientNoise(gen.seed, gen.size, gen.difficulty)
    /\ FillCount(gen.client, gen.size) \in 1..(gen.size * gen.size - 1)

(***************************************************************************)
(* C3: the grid returned by either generator holds exactly targetFillCount *)
(* = floor(size*size*targetDensity) cells equal to 1.                      *)
(***************************************************************************)
C3_FillCount ==
    /\ gen.clientPc = "done" =>
          FillCount(gen.client, gen.size)
              = clientTargetFillCount(gen.seed, gen.size, gen.difficulty)
    /\ gen.serverPc = "done" =>
          FillCount(gen.server, gen.size)
              = backendTargetFillCount(gen.seed, gen.size, gen.difficulty)

\* a returned grid whose noise had too many filled cells
C3_Witness ==
    /\ gen.clientPc = "done"
    /\ FillCount(clientNoise(gen.seed, gen.size, gen.difficulty), gen.size)
          > clientTargetFillCount(gen.seed, gen.size, gen.difficulty)
    /\ clientTargetFillCount(gen.seed, gen.size, gen.difficulty) > 0

Before(grid, coords, k, v) ==
    {idx \in 0..(k - 1) : grid[coords[idx].y][coords[idx].x] = v}

\* the value the claim gives the cell at position k of the shuffled coords:
\* noise is the grid after the noise pass and diff its surplus of filled cells
Flipped(noise, coords, k, diff) ==
    LET v == noise[coords[k].y][coords[k].x]
    IN  IF diff > 0 /\ v = 1 /\ Cardinality(Before(noise, coords, k, 1)) < diff THEN 0
        ELSE IF diff < 0 /\ v = 0 /\ Cardinality(Before(noise, coords, k, 0)) < -diff
        THEN 1
        ELSE v

(***************************************************************************)
(* C22: the grid generatePuzzle returns differs from the grid of the noise *)
(* pass in exactly |diff| cells, diff being the noise grid's filled count  *)
(* less targetFillCount: the first diff filled cells of the shuffled       *)
(* coords are cleared when diff > 0, the first |diff| empty cells are      *)
(* filled when diff < 0, and every other cell has its noise value.         *)
(***************************************************************************)
C22_CorrectionFlipsFirstCells ==
    gen.clientPc = "done" =>
        LET noise == clientNoise(gen.seed, gen.size, gen.difficulty)
            coords == clientCoords(gen.seed, gen.size)
            diff == FillCount(noise, gen.size)
                       - clientTargetFillCount(gen.seed, gen.size, gen.difficulty)
        IN  /\ \A y, x \in 0..(gen.size - 1) :
                  Cardinality({k \in DOMAIN coords : coords[k] = [y |-> y, x |-> x]}) = 1
            /\ \A k \in DOMAIN coords :
                  gen.client[coords[k].y][coords[k].x] = Flipped(noise, coords, k, diff)
            /\ Cardinality({k \in DOMAIN coords :
                              gen.client[coords[k].y][coords[k].x]
                                  /= noise[coords[k].y][coords[k].x]})
                  = IF diff >= 0 THEN diff ELSE -diff

\* a returned grid whose noise lacked two filled cells or more, and had a
\* filled cell earlier in the shuffled coords than the last cell filled
C22_Witness ==
    /\ gen.clientPc = "done" /\ gen.size >= 3
    /\ LET noise == clientNoise(gen.seed, gen.size, gen.difficulty)
           coords == clientCoords(gen.seed, gen.size)
       IN  /\ FillCount(noise, gen.size) + 2
                 <= clientTargetFillCount(gen.seed, gen.size, gen.difficulty)
           /\ \E k1, k2 \in DOMAIN coords :
                 /\ k1 < k2
                 /\ noise[coords[k1].y][coords[k1].x] = 1
                 /\ noise[coords[k2].y][coords[k2].x] = 0
                 /\ gen.client[coords[k2].y][coords[k2].x] = 1

(***************************************************************************)
(* The client starting a puzzle (hooks/useGameLogic.ts, startNewGame) and  *)
(* the backend checking a submitted record (backend/validation.js).        *)
(***************************************************************************)
\* getDailyPuzzleConfig(date), date = [year, month, day] in UTC
getDailyPuzzleConfig(date) ==
    LET seed == date.year * 10000 + date.month * 100 + date.day
        sizes == <<10, 12, 15, 20>>
        sizeIndex == (seed * 31 + 7) % Len(sizes)
    IN  [seed |-> seed, size |-> sizes[sizeIndex + 1], difficulty |-> "DAILY"]

\* getPuzzleId(size, difficulty, seed): the fields of "size:difficulty:seed"
getPuzzleId(size, difficulty, seed) ==
    [size |-> size, difficulty |-> difficulty, seed |-> seed]

\* the end of startNewGame: diffConfig, generatePuzzle, setPuzzle,
\* setPlayerGrid(createEmptyGrid), setHistory([]), status 'playing'
StartedGame(finalSeed, finalSize, finalDiff, isDaily) ==
    LET diffConfig == IF isDaily THEN DAILY_DIFFICULTY_CONFIG
                      ELSE DIFFICULTY_CONFIG[finalDiff]
    IN  [pc |-> "playing", isDaily |-> isDaily, diffConfig |-> diffConfig,
         puzzle |-> [grid |-> generatePuzzle(finalSeed, finalSize, diffConfig).grid,
                     size |-> finalSize, seed |-> finalSeed,
                     difficulty |-> finalDiff],
         puzzleId |-> getPuzzleId(0, "", 0), history |-> <<>>,
         targetKnown |-> FALSE, targetGrid |-> ZeroGrid(finalSize),
         verified |-> FALSE]

RECURSIVE FillMoves(_, _, _)
\* the moves of a player who fills the cells of the solution in row-major
\* order, one per second, and marks nothing else: cells i..size*size-1
FillMoves(grid, size, i) ==
    IF i >= size * size THEN <<>>
    ELSE IF grid[i \div size][i % size] = 1
         THEN <<[r |-> i \div size, c |-> i % size, newState |-> FILLED,
                 time |-> 1000 * i]>> \o FillMoves(grid, size, i + 1)
         ELSE FillMoves(grid, size, i + 1)

RECURSIVE Replay(_, _, _)
\* userGrid after the loop over history[i..]: userGrid[r][c] = newState
Replay(userGrid, history, i) ==
    IF i > Len(history) THEN userGrid
    ELSE Replay([userGrid EXCEPT ![history[i].r][history[i].c] = history[i].newState],
                history, i + 1)

\* a bounds check that forgets the upper bounds
OutOfBounds_negative(move, size) == move.r < 0 \/ move.c < 0

\* a move that fails the bounds check
OutOfBounds(move, size) ==
    move.r < 0 \/ move.r >= size \/ move.c < 0 \/ move.c >= size

\* a comparison that wants every cell outside the target EMPTY
NoDiscrepancy_emptyOnly(userGrid, targetGrid, size) ==
    \A r \in 0..(size - 1), c \in 0..(size - 1) :
        /\ ~(targetGrid[r][c] = 1 /\ userGrid[r][c] /= FILLED)
        /\ ~(targetGrid[r][c] = 0 /\ userGrid[r][c] /= EMPTY)

\* a comparison without the check for extra filled cells
NoDiscrepancy_targetOnly(userGrid, targetGrid, size) ==
    \A r \in 0..(size - 1), c \in 0..(size - 1) :
        ~(targetGrid[r][c] = 1 /\ userGrid[r][c] /= FILLED)

\* errors === 0 after the comparison loops
NoDiscrepancy(userGrid, targetGrid, size) ==
    \A r \in 0..(size - 1), c \in 0..(size - 1) :
        /\ ~(targetGrid[r][c] = 1 /\ userGrid[r][c] /= FILLED)
        /\ ~(targetGrid[r][c] = 0 /\ userGrid[r][c] = FILLED)

\* const diffSettings = DIFFICULTY_CONFIG[difficultyKey]; if (!diffSettings) ...
KnownDifficulty(puzzleId) == puzzleId.difficulty \in DOMAIN DIFFICULTY_CONFIG_backend

\* const targetGrid = generateTargetGrid(seed, size, diffSettings)
TargetOf(puzzleId) ==
    generateTargetGrid(puzzleId.seed, puzzleId.size,
                       DIFFICULTY_CONFIG_backend[puzzleId.difficulty])

\* validateSolution(puzzleId, history), once the difficulty is known and
\* every move is in bounds
ValidateReplay(targetGrid, history, size) ==
    /\ history[Len(history)].time - history[1].time >= 0
    /\ NoDiscrepancy(Replay([r \in 0..(size - 1) |-> [c \in 0..(size - 1) |-> EMPTY]],
                            history, 1),
                     targetGrid, size)

validateSolution(puzzleId, history) ==
    IF Len(history) = 0 THEN FALSE
    ELSE IF ~KnownDifficulty(puzzleId) THEN FALSE
    ELSE IF \E i \in 1..Len(history) : OutOfBounds(history[i], puzzleId.size) THEN FALSE
    ELSE ValidateReplay(TargetOf(puzzleId), history, puzzleId.size)

(***************************************************************************)
(* SpecPlay: one puzzle is started, solved and submitted.                  *)
(***************************************************************************)
Dates == [year : {2026}, month : {2}, day : 1..MaxDay]

PlayInit ==
    /\ play = [pc |-> "loading"]
    /\ gen = Off /\ sol = Off /\ ord = Off /\ run = Off /\ val = Off /\ day = Off /\ lin = Off /\ game = Off

\* startNewGame(seedVal), Priority 1: a seed typed by the player, in or out
\* of daily mode
StartTyped ==
    /\ play.pc = "loading"
    /\ \E seedVal \in 0..MaxPlaySeed, selectedSize \in 1..MaxPlaySize,
          selectedDifficulty \in Keys, isDaily \in BOOLEAN :
          play' = StartedGame(seedVal, selectedSize, selectedDifficulty, isDaily)
    /\ UNCHANGED <<gen, sol, ord, run, val, day, lin, game>>

\* startNewGame(), Priority 2: daily mode
StartDaily ==
    /\ play.pc = "loading"
    /\ \E date \in Dates :
          LET dailyConfig == getDailyPuzzleConfig(date)
          IN  play' = StartedGame(dailyConfig.seed, dailyConfig.size,
                                  dailyConfig.difficulty, TRUE)
    /\ UNCHANGED <<gen, sol, ord, run, val, day, lin, game>>

\* startNewGame(), Priority 3: the challenge of the URL
StartChallenge ==
    /\ play.pc = "loading"
    /\ \E seed \in 0..MaxPlaySeed, size \in 1..MaxPlaySize,
          diffIdx \in 1..Len(DIFFICULTY_LEVELS) :
          play' = StartedGame(seed, size, DIFFICULTY_LEVELS[diffIdx], FALSE)
    /\ UNCHANGED <<gen, sol, ord, run, val, day, lin, game>>

\* startNewGame(), Priority 4: a seed of the pool, or a random seed
StartRandom ==
    /\ play.pc = "loading"
    /\ \E finalSeed \in 0..MaxPlaySeed, selectedSize \in 1..MaxPlaySize,
          selectedDifficulty \in Keys :
          play' = StartedGame(finalSeed, selectedSize, selectedDifficulty, FALSE)
    /\ UNCHANGED <<gen, sol, ord, run, val, day, lin, game>>

\* the player fills the solution; handleRecordSubmit posts the record and
\* POST /api/records calls validateSolution(puzzleId, history)
SubmitRecord ==
    /\ play.pc = "playing"
    /\ LET pid == getPuzzleId(play.puzzle.size, play.puzzle.difficulty,
                              play.puzzle.seed)
           history == FillMoves(play.puzzle.grid, play.puzzle.size, 0)
       IN  play' = [play EXCEPT
                      !.pc = "submitted",
                      !.puzzleId = pid,
                      !.history = history,
                      !.targetKnown = KnownDifficulty(pid),
                      !.targetGrid = IF KnownDifficulty(pid) THEN TargetOf(pid)
                                     ELSE @,
                      !.verified = validateSolution(pid, history)]
    /\ UNCHANGED <<gen, sol, ord, run, val, day, lin, game>>

PlayNext == StartTyped \/ StartDaily \/ StartChallenge \/ StartRandom \/ SubmitRecord

SpecPlay == PlayInit /\ [][PlayNext]_vars

(***************************************************************************)
(* C2: for every puzzle the client can start, the target grid the backend  *)
(* derives from the identifier size:difficultyKey:seed equals the grid the *)
(* client generated, and the density range the backend looks up for the    *)
(* key is the range the client used.                                       *)
(***************************************************************************)
C2_BackendTargetIsClientGrid ==
    play.pc = "submitted" =>
        /\ play.targetKnown
        /\ DIFFICULTY_CONFIG_backend[play.puzzleId.difficulty] = play.diffConfig
        /\ play.targetGrid = play.puzzle.grid

(***************************************************************************)
(* C18: a daily puzzle (started by startNewGame in daily mode) that the    *)
(* player wins by filling the solution, submitted with the identifier      *)
(* built from puzzle.size, puzzle.difficulty and puzzle.seed and with the  *)
(* recorded history, is saved with verified = true.                        *)
(***************************************************************************)
C18_DailyCompletionVerified ==
    (play.pc = "submitted" /\ play.isDaily /\ play.puzzle.difficulty = "DAILY") =>
        play.verified

(***************************************************************************)
(* SpecDaily: MaxClients browsers open the page with ?mode=daily while the *)
(* clock runs; each starts the daily puzzle (startNewGame, Priority 2) and *)
(* may press Restart (restartCurrentGame, which passes the seed of the     *)
(* current puzzle to startNewGame, Priority 1).                            *)
(***************************************************************************)
\* new Date() at the instant now, read through getUTCFullYear, getUTCMonth
\* + 1 and getUTCDate
utcDate(now) == [year |-> 2026, month |-> 2, day |-> 1 + now \div 2]

\* the size of the URL (selectedSize; 10 when the URL names none), among
\* the GRID_SIZES up to 10
SelectedSizes == {5, 7, 8, 10}

\* the difficulty of the URL (selectedDifficulty; 'MEDIUM' when the URL
\* names none)
SelectedDifficulties == {"MEDIUM"}

\* localStorage 'lastDailySolved': the day of February 2026 it names, 0 when
\* the item is absent
LastDailySolved == 0..MaxSolvedDay

\* the games startNewGame can set up in daily mode, by size and seed: the
\* seed of every day of the instants of clock at a selected size, and at
\* the size of the daily configuration
DailyGames(clock) ==
    [k \in {<<getDailyPuzzleConfig(utcDate(now)).size,
              getDailyPuzzleConfig(utcDate(now)).seed, "DAILY">> : now \in clock}
           \cup {<<size, getDailyPuzzleConfig(utcDate(now)).seed, diff>> :
                    now \in clock, size \in SelectedSizes,
                    diff \in SelectedDifficulties}
        |-> StartedGame(k[2], k[1], k[3], TRUE)]

DailyInit ==
    /\ day = [pc |-> "deploy"]
    /\ gen = Off /\ play = Off /\ sol = Off /\ ord = Off /\ run = Off /\ val = Off /\ lin = Off /\ game = Off

\* the page is served: every browser has its URL and its localStorage
DailyOpen ==
    /\ day.pc = "deploy"
    /\ \E memo \in {DailyGames(0..MaxNow)},
          selectedSize \in [1..MaxClients -> SelectedSizes],
          selectedDifficulty \in [1..MaxClients -> SelectedDifficulties],
          lastDailySolved \in [1..MaxClients -> LastDailySolved] :
          day' = [pc |-> "on", now |-> 0, memo |-> memo,
                  clients |-> [c \in 1..MaxClients |->
                      [selectedSize |-> selectedSize[c],
                       selectedDifficulty |-> selectedDifficulty[c],
                       lastDailySolved |-> lastDailySolved[c],
                       startedAt |-> 0, restarted |-> FALSE,
                       game |-> [pc |-> "loading"]]]]
    /\ UNCHANGED <<gen, play, sol, ord, run, val, lin, game>>

\* time passes
DailyTick ==
    /\ day.pc = "on" /\ day.now < MaxNow
    /\ day' = [day EXCEPT !.now = @ + 1]
    /\ UNCHANGED <<gen, play, sol, ord, run, val, lin, game>>

\* startNewGame(seedVal) in a browser whose URL has mode=daily; seedVal = 0
\* stands for no seed. A daily puzzle already solved today takes the mode
\* off the URL, and the game that follows is no daily game.
DailyStarted(client, seedVal, now) ==
    IF client.lastDailySolved = utcDate(now).day
    THEN [client EXCEPT !.game = [pc |-> "playing", isDaily |-> FALSE]]
    ELSE IF seedVal # 0
    THEN [client EXCEPT
            !.game = day.memo[<<client.selectedSize, seedVal,
                                client.selectedDifficulty>>],
            !.startedAt = now, !.restarted = TRUE]
    ELSE LET dailyConfig == getDailyPuzzleConfig(utcDate(now))
         IN  [client EXCEPT
                !.game = day.memo[<<dailyConfig.size, dailyConfig.seed,
                                    dailyConfig.difficulty>>],
                !.startedAt = now]

\* the page is loaded: startNewGame()
DailyStart ==
    /\ day.pc = "on"
    /\ \E c \in 1..MaxClients :
          /\ day.clients[c].game.pc = "loading"
          /\ day' = [day EXCEPT !.clients[c] = DailyStarted(@, 0, day.now)]
    /\ UNCHANGED <<gen, play, sol, ord, run, val, lin, game>>

\* restartCurrentGame(): startNewGame(puzzle.seed.toString(), false)
DailyRestart ==
    /\ day.pc = "on"
    /\ \E c \in 1..MaxClients :
          /\ day.clients[c].game.pc = "playing" /\ day.clients[c].game.isDaily
          /\ day' = [day EXCEPT !.clients[c] =
                        DailyStarted(@, @.game.puzzle.seed, day.now)]
    /\ UNCHANGED <<gen, play, sol, ord, run, val, lin, game>>

DailyNext == DailyOpen \/ DailyTick \/ DailyStart \/ DailyRestart

SpecDaily == DailyInit /\ [][DailyNext]_vars

\* YYYYMMDD of a date, as the decimal numeral of the seed
YYYYMMDD(date) ==
    ToString(date.year)
        \o (IF date.month < 10 THEN "0" ELSE "") \o ToString(date.month)
        \o (IF date.day < 10 THEN "0" ELSE "") \o ToString(date.day)

\* client c has a game of daily mode, started on the UTC day of the instant t
DailyOn(c, t) ==
    /\ day.clients[c].game.pc = "playing" /\ day.clients[c].game.isDaily
    /\ utcDate(day.clients[c].startedAt) = utcDate(t)

(***************************************************************************)
(* C20: two clients that start a game of daily mode on the same UTC day    *)
(* have the same seed, which reads YYYYMMDD, the same size, one of 10, 12, *)
(* 15 and 20, the same density range and the same grid.                    *)
(***************************************************************************)
C20_SameDailyPuzzle ==
    day.pc = "on" =>
        \A c1, c2 \in 1..MaxClients, t \in 0..MaxNow :
            (DailyOn(c1, t) /\ DailyOn(c2, t)) =>
                /\ day.clients[c1].game.puzzle.seed = day.clients[c2].game.puzzle.seed
                /\ ToString(day.clients[c1].game.puzzle.seed) = YYYYMMDD(utcDate(t))
                /\ day.clients[c1].game.puzzle.size = day.clients[c2].game.puzzle.size
                /\ day.clients[c1].game.puzzle.size \in {10, 12, 15, 20}
                /\ day.clients[c1].game.diffConfig = day.clients[c2].game.diffConfig
                /\ day.clients[c1].game.puzzle.grid = day.clients[c2].game.puzzle.grid

\* the same of two clients neither of which pressed Restart
DailyBranchSamePuzzle ==
    day.pc = "on" =>
        \A c1, c2 \in 1..MaxClients, t \in 0..MaxNow :
            (/\ DailyOn(c1, t) /\ ~day.clients[c1].restarted
             /\ DailyOn(c2, t) /\ ~day.clients[c2].restarted) =>
                /\ day.clients[c1].game.puzzle.seed = day.clients[c2].game.puzzle.seed
                /\ ToString(day.clients[c1].game.puzzle.seed) = YYYYMMDD(utcDate(t))
                /\ day.clients[c1].game.puzzle.size = day.clients[c2].game.puzzle.size
                /\ day.clients[c1].game.puzzle.size \in {10, 12, 15, 20}
                /\ day.clients[c1].game.diffConfig = day.clients[c2].game.diffConfig
                /\ day.clients[c1].game.puzzle.grid = day.clients[c2].game.puzzle.grid

\* two clients that started the daily puzzle at different instants of one
\* UTC day, neither having pressed Restart
DailyBranchReached ==
    day.pc = "on" /\ \E c1, c2 \in 1..MaxClients :
        /\ DailyOn(c1, day.clients[c2].startedAt) /\ ~day.clients[c1].restarted
        /\ DailyOn(c2, day.clients[c1].startedAt) /\ ~day.clients[c2].restarted
        /\ day.clients[c1].startedAt # day.clients[c2].startedAt

(***************************************************************************)
(* SpecValidate: validateSolution(puzzleId, history) of validation.js is   *)
(* called on a request body and runs to its return or to an exception.     *)
(* puzzleId is a sequence of pieces, ":" being the separator; a history is *)
(* a sequence of moves [r, c, newState, time].                             *)
(***************************************************************************)
RECURSIVE splitFrom(_, _, _)
\* puzzleId.split(':') from piece i on, field being the field read so far
splitFrom(puzzleId, i, field) ==
    IF i > Len(puzzleId) THEN <<field>>
    ELSE IF puzzleId[i] = ":" THEN <<field>> \o splitFrom(puzzleId, i + 1, "")
    ELSE splitFrom(puzzleId, i + 1, puzzleId[i])

split(puzzleId) == splitFrom(puzzleId, 1, "")

\* parseInt(str) on a decimal numeral, and on a string that starts with no
\* digit
parseInt(str) ==
    IF \E n \in 0..(MaxValSize + MaxValSeed) : ToString(n) = str
    THEN CHOOSE n \in 0..(MaxValSize + MaxValSeed) : ToString(n) = str
    ELSE NaN

\* diffStr.replace(/\s+/g, '_').toUpperCase() on the strings of DiffStrs
difficultyKey(diffStr) ==
    CASE diffStr = "hard" -> "HARD"
      [] diffStr = "very hard" -> "VERY_HARD"
      [] OTHER -> diffStr

\* the body of validateSolution from the difficulty lookup to the start of the
\* replay loop: an unknown key returns false; Array(size) throws a RangeError
\* when size is NaN or negative (pc "thrown": the promise rejects)
afterParse(v, size, key, seed) ==
    IF key \notin DOMAIN DIFFICULTY_CONFIG_backend
    THEN [v EXCEPT !.pc = "returned", !.ret = FALSE,
                   !.size = size, !.difficultyKey = key, !.seed = seed]
    ELSE IF size = NaN \/ size < 0
    THEN [v EXCEPT !.pc = "thrown", !.error = "RangeError",
                   !.size = size, !.difficultyKey = key, !.seed = seed]
    ELSE [v EXCEPT !.pc = "replay", !.size = size, !.difficultyKey = key,
                   !.seed = seed, !.i = 1,
                   !.targetGrid = v.memo[<<seed, size, key>>],
                   !.userGrid = [r \in 0..(size - 1) |-> [c \in 0..(size - 1) |-> EMPTY]]]

\* the field strings and the requests of the model
SizeStrs == {ToString(n) : n \in 1..MaxValSize} \cup {"abc"}

DiffStrs == {"hard", "very hard", "DAILY"}

SeedStrs == {ToString(n) : n \in 0..MaxValSeed} \cup {"abc"}

PuzzleIds ==
    {<<s>> : s \in SizeStrs}
        \cup {<<s, ":", d>> : s \in SizeStrs, d \in DiffStrs}
        \cup {<<s, ":", d, ":", x>> : s \in SizeStrs, d \in DiffStrs, x \in SeedStrs}

Moves == [r : (-1)..MaxValSize, c : (-1)..MaxValSize,
          newState : EMPTY..(CROSSED + 1), time : 0..MaxTime]

Histories == UNION {[1..n -> Moves] : n \in 0..MaxMoves}

\* a request has arrived; memo holds generateTargetGrid(seed, size,
\* diffSettings) for the arguments a call of the model can make
ValidateInit ==
    /\ \E memo \in {[t \in ({NaN} \cup 0..(MaxValSize + MaxValSeed)) \X (1..MaxValSize)
                               \X DOMAIN DIFFICULTY_CONFIG_backend |->
                        generateTargetGrid(t[1], t[2], DIFFICULTY_CONFIG_backend[t[3]])]} :
          \E puzzleId \in PuzzleIds, history \in Histories :
              val = [pc |-> "called", puzzleId |-> puzzleId, history |-> history,
                     memo |-> memo, size |-> 0, difficultyKey |-> "", seed |-> 0,
                     targetGrid |-> <<>>, userGrid |-> <<>>, i |-> 0,
                     startTime |-> <<>>, endTime |-> <<>>, ret |-> FALSE,
                     error |-> ""]
    /\ gen = Off /\ play = Off /\ sol = Off /\ ord = Off /\ run = Off /\ day = Off /\ lin = Off /\ game = Off

\* validateSolution up to the replay loop: the history check, split, parseInt,
\* the difficulty lookup and generateTargetGrid; diffStr.replace throws a
\* TypeError when puzzleId has no second field
ValidateCall ==
    /\ val.pc = "called"
    /\ val' = IF Len(val.history) = 0
              THEN [val EXCEPT !.pc = "returned", !.ret = FALSE]
              ELSE IF Len(split(val.puzzleId)) < 2
              THEN [val EXCEPT !.pc = "thrown", !.error = "TypeError"]
              ELSE afterParse(val, parseInt(split(val.puzzleId)[1]),
                              difficultyKey(split(val.puzzleId)[2]),
                              IF Len(split(val.puzzleId)) >= 3
                              THEN parseInt(split(val.puzzleId)[3]) ELSE NaN)
    /\ UNCHANGED <<gen, play, sol, ord, run, day, lin, game>>

\* a turn of the loop that writes a cell only while it is EMPTY
ReplayMove_firstWins ==
    /\ val.pc = "replay" /\ val.i <= Len(val.history)
    /\ LET move == val.history[val.i]
       IN  val' = IF OutOfBounds(move, val.size)
                  THEN [val EXCEPT !.pc = "returned", !.ret = FALSE]
                  ELSE [val EXCEPT
                          !.startTime = IF @ = <<>> THEN <<move.time>> ELSE @,
                          !.endTime = <<move.time>>,
                          !.userGrid[move.r][move.c] =
                              IF @ = EMPTY THEN move.newState ELSE @,
                          !.i = @ + 1]
    /\ UNCHANGED <<gen, play, sol, ord, run, day, lin, game>>

\* one turn of the loop for (const move of history)
ReplayMove ==
    /\ val.pc = "replay" /\ val.i <= Len(val.history)
    /\ LET move == val.history[val.i]
       IN  val' = IF OutOfBounds(move, val.size)
                  THEN [val EXCEPT !.pc = "returned", !.ret = FALSE]
                  ELSE [val EXCEPT
                          !.startTime = IF @ = <<>> THEN <<move.time>> ELSE @,
                          !.endTime = <<move.time>>,
                          !.userGrid[move.r][move.c] = move.newState,
                          !.i = @ + 1]
    /\ UNCHANGED <<gen, play, sol, ord, run, day, lin, game>>

\* after the loop: the time validation and the comparison of the grids
ValidateCompare ==
    /\ val.pc = "replay" /\ val.i > Len(val.history)
    /\ val' = [val EXCEPT
                  !.pc = "returned",
                  !.ret = IF val.endTime[1] - val.startTime[1] < 0 THEN FALSE
                          ELSE NoDiscrepancy(val.userGrid, val.targetGrid, val.size)]
    /\ UNCHANGED <<gen, play, sol, ord, run, day, lin, game>>

ValidateNext == ValidateCall \/ ReplayMove \/ ValidateCompare

SpecValidate == ValidateInit /\ [][ValidateNext]_vars

\* validateSolution has ended, by a return or by an exception
Finished(v) == v.pc \in {"returned", "thrown"}

\* the fields of the request's puzzle identifier
HasKnownKey(v) ==
    /\ Len(split(v.puzzleId)) >= 2
    /\ difficultyKey(split(v.puzzleId)[2]) \in DOMAIN DIFFICULTY_CONFIG_backend

HasNumericSize(v) == parseInt(split(v.puzzleId)[1]) /= NaN

HasNumericSeed(v) ==
    Len(split(v.puzzleId)) >= 3 /\ parseInt(split(v.puzzleId)[3]) /= NaN

\* a move outside the size x size grid
OffGrid(move, size) == move.r \notin 0..(size - 1) \/ move.c \notin 0..(size - 1)

\* the state the moves of history leave in cell (r, c) of an empty grid: the
\* newState of the last move on the cell
FinalCell(history, r, c) ==
    LET on == {i \in 1..Len(history) : history[i].r = r /\ history[i].c = c}
    IN  IF on = {} THEN EMPTY
        ELSE history[CHOOSE i \in on : \A j \in on : j <= i].newState

\* the replay leaves exactly the cells that are 1 in grid FILLED
ExactFill(history, grid, size) ==
    \A r \in 0..(size - 1), c \in 0..(size - 1) :
        (FinalCell(history, r, c) = FILLED) <=> (grid[r][c] = 1)

\* the request of the positive case: a known key, a size that is a number, a
\* non-empty history of moves in bounds that fills exactly the target cells
ExactRequest(v) ==
    /\ Finished(v) /\ HasKnownKey(v) /\ HasNumericSize(v)
    /\ Len(v.history) > 0
    /\ \A i \in 1..Len(v.history) : ~OffGrid(v.history[i], v.size)
    /\ ExactFill(v.history, v.targetGrid, v.size)

(***************************************************************************)
(* C13 as stated: a known difficulty key and a non-empty history of moves  *)
(* in bounds whose replay leaves exactly the target cells FILLED make      *)
(* validateSolution return true.                                           *)
(***************************************************************************)
C13_ExactFillAccepted ==
    ExactRequest(val) => (val.pc = "returned" /\ val.ret)

(***************************************************************************)
(* C13 amended: the same, for a history whose last move is not timed       *)
(* before its first move.                                                  *)
(***************************************************************************)
C13_ExactFillInTimeAccepted ==
    (/\ ExactRequest(val)
     /\ val.history[Len(val.history)].time >= val.history[1].time) =>
        (val.pc = "returned" /\ val.ret)

\* true was returned for two moves: a target cell filled, another cell
\* crossed
C13_Witness ==
    /\ ExactRequest(val) /\ val.pc = "returned" /\ val.ret
    /\ Len(val.history) = 2 /\ val.size = 2
    /\ val.history[1].newState = FILLED /\ val.history[2].newState = CROSSED

(***************************************************************************)
(* C14: when the grid that the replay of the history leaves has a cell     *)
(* FILLED where the target grid is 0, or a cell not FILLED where the       *)
(* target grid is 1, validateSolution returns false.                       *)
(***************************************************************************)
C14_DiscrepancyRejected ==
    (/\ Finished(val) /\ HasKnownKey(val) /\ HasNumericSize(val)
     /\ Len(val.history) > 0
     /\ ~ExactFill(val.history, val.targetGrid, val.size)) =>
        (val.pc = "returned" /\ ~val.ret)

\* false was returned after the comparison of the grids: every target cell
\* is filled, and so is a cell that is not a target
C14_Witness ==
    /\ val.pc = "returned" /\ ~val.ret /\ val.i > Len(val.history)
    /\ val.history[Len(val.history)].time >= val.history[1].time
    /\ \A r \in 0..(val.size - 1), c \in 0..(val.size - 1) :
          val.targetGrid[r][c] = 1 => val.userGrid[r][c] = FILLED
    /\ \E r \in 0..(val.size - 1), c \in 0..(val.size - 1) :
          val.targetGrid[r][c] = 0 /\ val.userGrid[r][c] = FILLED

(***************************************************************************)
(* C15: for a puzzle identifier of three fields with a numeric size and    *)
(* seed, a move with r < 0, r >= size, c < 0 or c >= size at any position  *)
(* of the history makes validateSolution return false, and the turn of the *)
(* loop that meets the move returns without writing to the grid.           *)
(***************************************************************************)
C15_OutOfBoundsRejected ==
    /\ []((/\ Finished(val) /\ HasKnownKey(val) /\ HasNumericSize(val)
           /\ HasNumericSeed(val)
           /\ \E i \in 1..Len(val.history) : OffGrid(val.history[i], val.size)) =>
              (val.pc = "returned" /\ ~val.ret))
    /\ [][(/\ val.pc = "replay" /\ val.i <= Len(val.history)
           /\ OffGrid(val.history[val.i], val.size)) =>
              (/\ val'.pc = "returned" /\ ~val'.ret
               /\ val'.userGrid = val.userGrid)]_vars

\* false was returned at the second move, which has r = size; the first
\* move is in the grid and nothing else
C15_Witness ==
    /\ val.pc = "returned" /\ ~val.ret /\ val.i = 2 /\ Len(val.history) = 2
    /\ val.history[2].r = val.size /\ val.history[2].c \in 0..(val.size - 1)
    /\ val.history[1].newState = FILLED
    /\ val.userGrid[val.history[1].r][val.history[1].c] = FILLED
    /\ \A r \in 0..(val.size - 1), c \in 0..(val.size - 1) :
          val.userGrid[r][c] /= EMPTY => (r = val.history[1].r /\ c = val.history[1].c)

(***************************************************************************)
(* C16: a move whose newState is none of 0 (EMPTY), 1 (FILLED) and         *)
(* 2 (CROSSED) makes validateSolution return false.                        *)
(***************************************************************************)
C16_IllegalStateRejected ==
    (/\ Finished(val) /\ HasKnownKey(val) /\ HasNumericSize(val)
     /\ HasNumericSeed(val)
     /\ \E i \in 1..Len(val.history) :
           val.history[i].newState \notin {EMPTY, FILLED, CROSSED}) =>
        (val.pc = "returned" /\ ~val.ret)

\* an input the error handling names: fewer than three fields, a size or a
\* seed that is no number, a key that is not in the table, a move out of range
InvalidInput(v) ==
    \/ Len(split(v.puzzleId)) < 3
    \/ ~HasNumericSize(v)
    \/ ~HasNumericSeed(v)
    \/ ~HasKnownKey(v)
    \/ \E i \in 1..Len(v.history) : OffGrid(v.history[i], parseInt(split(v.puzzleId)[1]))

(***************************************************************************)
(* C17: on an invalid input validateSolution ends by returning false; it   *)
(* does not end by an exception.                                           *)
(***************************************************************************)
C17_InvalidInputReturnsFalse ==
    (Finished(val) /\ InvalidInput(val)) => (val.pc = "returned" /\ ~val.ret)

\* validateSolution has replayed the whole history: the loop was entered (i
\* counts from 1) and every move was in bounds
Replayed(v) ==
    /\ v.i >= 1
    /\ \A i \in 1..Len(v.history) : ~OffGrid(v.history[i], v.size)
    /\ \/ v.pc = "replay" /\ v.i > Len(v.history)
       \/ v.pc = "returned"

\* the grid of the last moves of history
FinalGrid(history, size) ==
    [r \in 0..(size - 1) |-> [c \in 0..(size - 1) |-> FinalCell(history, r, c)]]

\* the moves of history that no later move on the same cell follows
LastOnCell(history) ==
    {i \in 1..Len(history) :
        \A j \in (i + 1)..Len(history) :
            history[j].r /= history[i].r \/ history[j].c /= history[i].c}

\* the verdict of validateSolution on a history whose first move is
\* history[first] and whose last moves are those of history
VerdictFrom(v, first) ==
    /\ v.history[Len(v.history)].time - v.history[first].time >= 0
    /\ NoDiscrepancy(FinalGrid(v.history, v.size), v.targetGrid, v.size)

\* after the replay each cell of userGrid holds the newState of the last
\* move on it, EMPTY when there is none
ReplayedGridIsFinal ==
    Replayed(val) => val.userGrid = FinalGrid(val.history, val.size)

(***************************************************************************)
(* C24 as stated: after the replay of a history of moves in bounds each    *)
(* cell of the reconstructed grid holds the newState of the last move on   *)
(* it, EMPTY when no move addressed it, and the verdict is the one of the  *)
(* history without the moves that a later move on the same cell follows.   *)
(***************************************************************************)
C24_LastMoveDecides ==
    /\ ReplayedGridIsFinal
    /\ (Replayed(val) /\ val.pc = "returned") =>
          (val.ret <=> VerdictFrom(val, CHOOSE i \in LastOnCell(val.history) :
                                           \A j \in LastOnCell(val.history) : i <= j))

(***************************************************************************)
(* C24 amended: the grid as above, and the verdict depends on the moves    *)
(* through the reconstructed grid and through the times of the first and   *)
(* of the last move of the history only.                                   *)
(***************************************************************************)
C24_LastMoveDecidesGrid ==
    /\ ReplayedGridIsFinal
    /\ (Replayed(val) /\ val.pc = "returned") => (val.ret <=> VerdictFrom(val, 1))

\* a history accepted although its first move filled a cell that is not in
\* the target: a later move on the cell took the mark back
C24_Witness ==
    /\ Replayed(val) /\ val.pc = "returned" /\ val.ret
    /\ Len(val.history) = 2
    /\ val.history[1].r = val.history[2].r /\ val.history[1].c = val.history[2].c
    /\ val.history[1].newState = FILLED
    /\ val.targetGrid[val.history[1].r][val.history[1].c] = 0

(***************************************************************************)
(* NonogramSolver (utils/nonogramSolver.ts).  A line is a function         *)
(* [0..len-1 -> CellState]; a list of hints is a sequence, so hints[k] of  *)
(* the code is hints[k + 1] here.                                          *)
(***************************************************************************)
LineLen(line) == Cardinality(DOMAIN line)

RECURSIVE SumFrom(_, _)
\* hints.slice(from).reduce((a, b) => a + b, 0)
SumFrom(hints, from) ==
    IF from >= Len(hints) THEN 0
    ELSE hints[from + 1] + SumFrom(hints, from + 1)

\* this.grid[r]
getRow(grid, r) == grid[r]

\* this.grid[r] = line
setRow(grid, r, line) == [grid EXCEPT ![r] = line]

\* this.grid.map(row => row[c])
getCol(grid, size, c) == [r \in 0..(size - 1) |-> grid[r][c]]

\* for r: this.grid[r][c] = line[r]
setCol(grid, size, c, line) ==
    [r \in 0..(size - 1) |-> [grid[r] EXCEPT ![c] = line[r]]]

isConfigCompatible(config, original) ==
    \A i \in DOMAIN config :
        /\ ~(original[i] = FILLED /\ config[i] /= FILLED)
        /\ ~(original[i] = CROSSED /\ config[i] = FILLED)

\* finalConfig: every EMPTY cell of current becomes CROSSED
finalConfig(current) ==
    [i \in DOMAIN current |-> IF current[i] = EMPTY THEN CROSSED ELSE current[i]]

\* a push of finalConfig without the final check against line
pushIfCompatible_always(config, line) == <<config>>

\* the hintIdx === hints.length branch of backtrack: results.push(finalConfig)
pushIfCompatible(config, line) ==
    IF isConfigCompatible(config, line) THEN <<config>> ELSE <<>>

\* a bound of the placement loop that stops one cell short
lastPossibleStart_short(line, hints, hintIdx) ==
    LineLen(line) - SumFrom(hints, hintIdx + 1) - (Len(hints) - hintIdx - 1)
        - hints[hintIdx + 1] - 1

lastPossibleStart(line, hints, hintIdx) ==
    LineLen(line) - SumFrom(hints, hintIdx + 1) - (Len(hints) - hintIdx - 1)
        - hints[hintIdx + 1]

\* canPlace after the three checks of the loop body
canPlace(line, currentHint, startPos, i) ==
    /\ \A j \in 0..(currentHint - 1) : line[i + j] /= CROSSED
    /\ ~(i + currentHint < LineLen(line) /\ line[i + currentHint] = FILLED)
    /\ \A j \in startPos..(i - 1) : line[j] /= FILLED

\* for j < currentHint: current[i + j] = FILLED
place(current, i, currentHint) ==
    [k \in DOMAIN current |-> IF k >= i /\ k < i + currentHint THEN FILLED
                                ELSE current[k]]

RECURSIVE backtrack(_, _, _, _, _)
RECURSIVE placements(_, _, _, _, _, _)
\* the configurations pushed to results by backtrack(hintIdx, startPos),
\* in the order of the pushes
backtrack(line, hints, current, hintIdx, startPos) ==
    IF hintIdx = Len(hints) THEN pushIfCompatible(finalConfig(current), line)
    ELSE placements(line, hints, current, hintIdx, startPos, startPos)

\* the for loop of backtrack from i to lastPossibleStart
placements(line, hints, current, hintIdx, startPos, i) ==
    IF i > lastPossibleStart(line, hints, hintIdx) THEN <<>>
    ELSE (IF canPlace(line, hints[hintIdx + 1], startPos, i)
          THEN backtrack(line, hints, place(current, i, hints[hintIdx + 1]),
                         hintIdx + 1, i + hints[hintIdx + 1] + 1)
          ELSE <<>>)
         \o placements(line, hints, current, hintIdx, startPos, i + 1)

getAllValidConfigs(line, hints) ==
    backtrack(line, hints, [i \in DOMAIN line |-> EMPTY], 0, 0)

\* an intersection loop that fills a cell as soon as one configuration does
intersection_anyFilled(line, configs) ==
    [i \in DOMAIN line |->
        IF line[i] /= EMPTY THEN line[i]
        ELSE IF \E k \in 1..Len(configs) : configs[k][i] = FILLED THEN FILLED
        ELSE IF \A k \in 1..Len(configs) : configs[k][i] /= FILLED THEN CROSSED
        ELSE line[i]]

\* newLine after the intersection loop
intersection(line, configs) ==
    [i \in DOMAIN line |->
        IF line[i] /= EMPTY THEN line[i]
        ELSE IF \A k \in 1..Len(configs) : configs[k][i] = FILLED THEN FILLED
        ELSE IF \A k \in 1..Len(configs) : configs[k][i] /= FILLED THEN CROSSED
        ELSE line[i]]

\* a solveLine without the early return on configs.length === 0
newLineFrom_unguarded(line, configs) == intersection(line, configs)

\* newLine of solveLine, or the line itself when configs.length === 0
newLineFrom(line, configs) ==
    IF Len(configs) = 0 THEN line ELSE intersection(line, configs)

\* a solveLine that works from the hints alone and forgets what the line holds
newLineOf_hintsOnly(line, hints) ==
    newLineFrom([i \in DOMAIN line |-> EMPTY],
                getAllValidConfigs([i \in DOMAIN line |-> EMPTY], hints))

newLineOf(line, hints) == newLineFrom(line, getAllValidConfigs(line, hints))

\* a solveLine that reports a change whatever the comparison finds
lineResult_always(originalLine, newLine) == [changed |-> TRUE, line |-> newLine]

\* the comparison loop of solveLine: the value returned, and the line given to
\* updateFn when it is true
lineResult(originalLine, newLine) ==
    [changed |-> \E i \in DOMAIN originalLine : originalLine[i] /= newLine[i],
     line |-> newLine]

solveLine(line, hints) == lineResult(line, newLineOf(line, hints))

\* if (changed) updateFn(newLine), with updateFn = line => this.setRow(r, line)
updateRow(grid, r, res) == IF res.changed THEN setRow(grid, r, res.line) ELSE grid

\* if (changed) updateFn(newLine), with updateFn = line => this.setCol(c, line)
updateCol(grid, size, c, res) ==
    IF res.changed THEN setCol(grid, size, c, res.line) ELSE grid

\* changed = this.solveLine(...): the last line of the pass decides
noteChange_last(changed, lineChanged) == lineChanged

\* if (this.solveLine(...)) { changed = true; }
noteChange(changed, lineChanged) == IF lineChanged THEN TRUE ELSE changed

\* an isSolved that looks at the first row only
isSolved_firstRow(grid, size) == \A c \in 0..(size - 1) : grid[0][c] /= EMPTY

isSolved(grid, size) ==
    \A r \in 0..(size - 1), c \in 0..(size - 1) : grid[r][c] /= EMPTY

\* the constructor's grid
EmptyGrid(size) == [r \in 0..(size - 1) |-> [c \in 0..(size - 1) |-> EMPTY]]

\* the body of the loop "Solve rows" for row r; st = [grid, changed] and res
\* is what solveLine returned
rowStep(st, r, res) ==
    [grid |-> updateRow(st.grid, r, res),
     changed |-> noteChange(st.changed, res.changed)]

\* the body of the loop "Solve columns" for column c
colStep(st, size, c, res) ==
    [grid |-> updateCol(st.grid, size, c, res),
     changed |-> noteChange(st.changed, res.changed)]

RECURSIVE solveRows(_, _, _, _)
\* the loop "Solve rows" from row r on
solveRows(st, size, rowHints, r) ==
    IF r >= size THEN st
    ELSE solveRows(rowStep(st, r, solveLine(getRow(st.grid, r), rowHints[r + 1])),
                   size, rowHints, r + 1)

RECURSIVE solveCols(_, _, _, _)
\* the loop "Solve columns" from column c on
solveCols(st, size, colHints, c) ==
    IF c >= size THEN st
    ELSE solveCols(colStep(st, size, c,
                           solveLine(getCol(st.grid, size, c), colHints[c + 1])),
                   size, colHints, c + 1)

\* a pass that solves the rows and leaves the columns out
solvePass_rowsOnly(grid, size, rowHints, colHints) ==
    solveRows([grid |-> grid, changed |-> FALSE], size, rowHints, 0)

\* one pass of the while loop, from changed = false
solvePass(grid, size, rowHints, colHints) ==
    solveCols(solveRows([grid |-> grid, changed |-> FALSE], size, rowHints, 0),
              size, colHints, 0)

RECURSIVE solveWhile(_, _, _, _)
\* the while loop, entered with the result st of the pass before
solveWhile(st, size, rowHints, colHints) ==
    IF st.changed
    THEN solveWhile(solvePass(st.grid, size, rowHints, colHints),
                    size, rowHints, colHints)
    ELSE st.grid

\* this.grid when solve() returns, for a solver whose grid is grid
solveFrom(grid, size, rowHints, colHints) ==
    solveWhile([grid |-> grid, changed |-> TRUE], size, rowHints, colHints)

\* new NonogramSolver(size, rowHints, colHints).solve(): the grid and the
\* value returned
solveOf(grid, size) == [grid |-> grid, solved |-> isSolved(grid, size)]

solve(size, rowHints, colHints) ==
    solveOf(solveFrom(EmptyGrid(size), size, rowHints, colHints), size)

(***************************************************************************)
(* scripts/generate-seeds.cjs: generateGrid, calculateHints and the class  *)
(* Solver.                                                                 *)
(***************************************************************************)
RECURSIVE calculateHintsFrom(_, _, _, _)
\* the loop of calculateHints over line, from cell i with the running count
calculateHintsFrom(line, i, count, hints) ==
    IF i >= LineLen(line)
    THEN (IF count > 0 THEN Append(hints, count) ELSE hints)
    ELSE IF line[i] = 1 THEN calculateHintsFrom(line, i + 1, count + 1, hints)
    ELSE IF count > 0 THEN calculateHintsFrom(line, i + 1, 0, Append(hints, count))
    ELSE calculateHintsFrom(line, i + 1, count, hints)

\* if (hints.length === 0) hints.push(0)
zeroIfNone(hints) == IF Len(hints) = 0 THEN <<0>> ELSE hints

\* a calculateHints without its last line
calculateHints_noZero(line) == calculateHintsFrom(line, 0, 0, <<>>)

calculateHints(line) == zeroIfNone(calculateHintsFrom(line, 0, 0, <<>>))

\* the state [calculatedHints, count] of the memo of Hints after the body of
\* its for loop has run for cell
Hints_cell(st, cell) ==
    IF cell = 1 THEN [st EXCEPT !.count = @ + 1]
    ELSE IF st.count > 0
    THEN [calculatedHints |-> Append(st.calculatedHints, st.count), count |-> 0]
    ELSE st

RECURSIVE Hints_loop(_, _)
\* the for loop of the memo over the first n cells of line
Hints_loop(line, n) ==
    IF n = 0 THEN [calculatedHints |-> <<>>, count |-> 0]
    ELSE Hints_cell(Hints_loop(line, n - 1), line[n - 1])

\* the value of the hints memo of the Hints component for line
Hints_hints(line) ==
    LET st == Hints_loop(line, LineLen(line))
        pushed == IF st.count > 0 THEN Append(st.calculatedHints, st.count)
                  ELSE st.calculatedHints
    IN  IF Len(pushed) = 0 THEN <<0>> ELSE pushed

\* const rHints = grid.map(r => calculateHints(r))
rHints(grid, size) == [r \in 1..size |-> calculateHints(grid[r - 1])]

\* const cHints = Array(size).fill(0).map((_, c) => calculateHints(grid.map(r => r[c])))
cHints(grid, size) ==
    [c \in 1..size |-> calculateHints([r \in 0..(size - 1) |-> grid[r][c - 1]])]

\* the stream of the script's Random: mulberry32 of generate-seeds.cjs
scriptState(seed, k) == Add32(ToWord(seed), Imul(ToWord(k), <<27947, 31221>>))

scriptMix1(t) == Imul(Xor32(t, Shr32(t, 15)), OrSmall(t, 1))

scriptMix2(t) == Xor32(t, Add32(t, Imul(Xor32(t, Shr32(t, 7)), OrSmall(t, 61))))

scriptMix3(t) == Xor32(t, Shr32(t, 14))

\* rng.next(), draw k of the stream of seed
Random_next_script(seed, k) == scriptMix3(scriptMix2(scriptMix1(scriptState(seed, k))))

RECURSIVE scriptShuffle(_, _, _, _)
scriptShuffle(coords, i, seed, k) ==
    IF i < 1 THEN coords
    ELSE LET j == FloorScaled(Random_next_script(seed, k), i + 1)
         IN  scriptShuffle([coords EXCEPT ![i] = coords[j], ![j] = coords[i]],
                           i - 1, seed, k + 1)

RECURSIVE scriptRemove(_, _, _, _, _)
\* if (diff > 0): the loop over coords
scriptRemove(grid, coords, idx, n, diff) ==
    IF idx >= n \/ diff = 0 THEN grid
    ELSE LET y == coords[idx].y
             x == coords[idx].x
         IN  IF grid[y][x] = 1
             THEN scriptRemove([grid EXCEPT ![y][x] = 0], coords, idx + 1, n, diff - 1)
             ELSE scriptRemove(grid, coords, idx + 1, n, diff)

RECURSIVE scriptAdd(_, _, _, _, _)
\* else if (diff < 0): the loop over coords
scriptAdd(grid, coords, idx, n, diff) ==
    IF idx >= n \/ diff = 0 THEN grid
    ELSE LET y == coords[idx].y
             x == coords[idx].x
         IN  IF grid[y][x] = 0
             THEN scriptAdd([grid EXCEPT ![y][x] = 1], coords, idx + 1, n, diff + 1)
             ELSE scriptAdd(grid, coords, idx + 1, n, diff)

scriptTargetDensity(seed, difficulty) ==
    DensityOf(difficulty.minDensity, difficulty.maxDensity, Random_next_script(seed, 1))

\* a noise pass that starts at the draw that gave targetDensity
scriptNoiseAt_reusedDraw(seed, size, targetDensity) ==
    [y \in 0..(size - 1) |-> [x \in 0..(size - 1) |->
        IF Below(Random_next_script(seed, 1 + y * size + x), targetDensity)
        THEN 1 ELSE 0]]

scriptNoiseAt(seed, size, targetDensity) ==
    [y \in 0..(size - 1) |-> [x \in 0..(size - 1) |->
        IF Below(Random_next_script(seed, 2 + y * size + x), targetDensity)
        THEN 1 ELSE 0]]

scriptCorrect(grid, coords, size, diff) ==
    IF diff > 0 THEN scriptRemove(grid, coords, 0, size * size, diff)
    ELSE IF diff < 0 THEN scriptAdd(grid, coords, 0, size * size, diff)
    ELSE grid

scriptCorrectNoise(noise, seed, size, targetFillCount) ==
    scriptCorrect(noise,
                  scriptShuffle(RowMajorCoords(size), size * size - 1, seed,
                                size * size + 2),
                  size, FillCount(noise, size) - targetFillCount)

\* the body of generateGrid after targetDensity is drawn
scriptGrid(seed, size, targetDensity) ==
    scriptCorrectNoise(scriptNoiseAt(seed, size, targetDensity), seed, size,
                       FloorTimes(size * size, targetDensity))

generateGrid(seed, size, difficulty) ==
    scriptGrid(seed, size, scriptTargetDensity(seed, difficulty))

(***************************************************************************)
(* SpecGen: one seed, size and density range are given to generatePuzzle   *)
(* of the client, to generateTargetGrid of the backend and to generateGrid *)
(* of the seed-pool script.                                                *)
(***************************************************************************)
\* the script calls generateGrid(seed, size, difficulty)
ScriptGenerate ==
    /\ gen.scriptPc = "idle"
    /\ gen' = [gen EXCEPT !.scriptPc = "done",
                          !.script = generateGrid(gen.seed, gen.size, gen.difficulty)]
    /\ UNCHANGED <<play, sol, ord, run, val, day, lin, game>>

GenNext == ClientGenerate \/ ServerGenerate \/ ScriptGenerate

SpecGen == GenInit /\ [][GenNext]_vars

Solver_pushIfCompatible(config, line) ==
    IF \E i \in DOMAIN config :
          \/ line[i] = FILLED /\ config[i] /= FILLED
          \/ line[i] = CROSSED /\ config[i] = FILLED
    THEN <<>> ELSE <<config>>

\* const remain = hints.slice(hIdx + 1).reduce(...) + (hints.length - hIdx - 1)
Solver_remain(hints, hIdx) == SumFrom(hints, hIdx + 1) + (Len(hints) - hIdx - 1)

\* ok after the three checks of the loop body
Solver_ok(line, hint, start, i) ==
    /\ \A j \in 0..(hint - 1) : line[i + j] /= CROSSED
    /\ ~(i + hint < LineLen(line) /\ line[i + hint] = FILLED)
    /\ \A j \in start..(i - 1) : line[j] /= FILLED

RECURSIVE Solver_backtrack(_, _, _, _, _)
RECURSIVE Solver_placements(_, _, _, _, _, _)
Solver_backtrack(line, hints, current, hIdx, start) ==
    IF hIdx = Len(hints)
    THEN Solver_pushIfCompatible(
            [i \in DOMAIN current |-> IF current[i] = EMPTY THEN CROSSED
                                      ELSE current[i]], line)
    ELSE Solver_placements(line, hints, current, hIdx, start, start)

Solver_placements(line, hints, current, hIdx, start, i) ==
    IF i > LineLen(line) - Solver_remain(hints, hIdx) - hints[hIdx + 1] THEN <<>>
    ELSE (IF Solver_ok(line, hints[hIdx + 1], start, i)
          THEN Solver_backtrack(line, hints,
                                [k \in DOMAIN current |->
                                    IF k >= i /\ k < i + hints[hIdx + 1] THEN FILLED
                                    ELSE current[k]],
                                hIdx + 1, i + hints[hIdx + 1] + 1)
          ELSE <<>>)
         \o Solver_placements(line, hints, current, hIdx, start, i + 1)

Solver_getConfigs(line, hints) ==
    Solver_backtrack(line, hints, [i \in DOMAIN line |-> EMPTY], 0, 0)

\* newLine after the loop over the cells of line
Solver_newLine(line, configs) ==
    IF Len(configs) = 0 THEN line
    ELSE [i \in DOMAIN line |->
            IF line[i] /= EMPTY THEN line[i]
            ELSE IF \A k \in 1..Len(configs) : configs[k][i] = FILLED THEN FILLED
            ELSE IF \A k \in 1..Len(configs) : configs[k][i] /= FILLED THEN CROSSED
            ELSE line[i]]

\* const line = type === 'row' ? this.grid[idx] : this.grid.map(r => r[idx])
Solver_line(grid, size, type, idx) ==
    IF type = "row" THEN grid[idx] ELSE [r \in 0..(size - 1) |-> grid[r][idx]]

\* the last loop of solveLine: the cells that differ are written to this.grid
Solver_write(grid, size, type, idx, original, newLine) ==
    [changed |-> \E i \in DOMAIN original : original[i] /= newLine[i],
     grid |-> IF type = "row" THEN [grid EXCEPT ![idx] = newLine]
              ELSE [r \in 0..(size - 1) |-> [grid[r] EXCEPT ![idx] = newLine[r]]]]

\* Solver.solveLine(type, idx): the value returned and this.grid afterwards
Solver_solveLineOn(grid, size, type, idx, line, hints) ==
    Solver_write(grid, size, type, idx, line,
                 Solver_newLine(line, Solver_getConfigs(line, hints)))

Solver_solveLine(grid, size, rowHints, colHints, type, idx) ==
    Solver_solveLineOn(grid, size, type, idx, Solver_line(grid, size, type, idx),
                       IF type = "row" THEN rowHints[idx + 1] ELSE colHints[idx + 1])

\* if (this.solveLine(type, idx)) changed = true
Solver_step(changed, res) ==
    [grid |-> res.grid, changed |-> IF res.changed THEN TRUE ELSE changed]

RECURSIVE Solver_lines(_, _, _, _, _, _)
\* one of the two for loops of Solver.solve, from line idx on
Solver_lines(st, size, rowHints, colHints, type, idx) ==
    IF idx >= size THEN st
    ELSE Solver_lines(
            Solver_step(st.changed,
                        Solver_solveLine(st.grid, size, rowHints, colHints, type, idx)),
            size, rowHints, colHints, type, idx + 1)

RECURSIVE Solver_while(_, _, _, _)
Solver_while(st, size, rowHints, colHints) ==
    IF st.changed
    THEN Solver_while(
            Solver_lines(
                Solver_lines([grid |-> st.grid, changed |-> FALSE],
                             size, rowHints, colHints, "row", 0),
                size, rowHints, colHints, "col", 0),
            size, rowHints, colHints)
    ELSE st.grid

\* isSolved() { return !this.grid.some(row => row.includes(CellState.EMPTY)); }
Solver_isSolved(grid, size) ==
    ~(\E r \in 0..(size - 1) : \E c \in 0..(size - 1) : grid[r][c] = EMPTY)

Solver_result(grid, size) == [grid |-> grid, solved |-> Solver_isSolved(grid, size)]

\* new Solver(size, rowHints, colHints).solve(): the grid and the value returned
Solver_solve(size, rowHints, colHints) ==
    Solver_result(Solver_while([grid |-> EmptyGrid(size), changed |-> TRUE],
                               size, rowHints, colHints), size)

(***************************************************************************)
(* SpecSolve: a solver is constructed and solve() is called twice, one     *)
(* call of solveLine per step.  impl tells which of the two classes runs:  *)
(* NonogramSolver (utils/nonogramSolver.ts) or Solver (generate-seeds.cjs).*)
(***************************************************************************)
Grids(size) == [0..(size - 1) -> [0..(size - 1) -> {0, 1}]]

HintLists == UNION {[1..n -> 0..MaxHint] : n \in 0..MaxHints}

Impls == {"NonogramSolver", "Solver"}

\* the number of cells of grid that are EMPTY
EmptyCount(grid, size) ==
    Cardinality({rc \in (0..(size - 1)) \X (0..(size - 1)) : grid[rc[1]][rc[2]] = EMPTY})

\* the passes a solver is allowed before the model stops following it
PassCap(size) == size * size + 2

\* a solver after its constructor; G is the grid the hints came from, when
\* fromGrid
NewSolver(impl, size, fromGrid, G, rowHints, colHints) ==
    [impl |-> impl, size |-> size, fromGrid |-> fromGrid, G |-> G,
     rowHints |-> rowHints, colHints |-> colHints, grid |-> EmptyGrid(size),
     pc |-> "new", idx |-> 0, changed |-> FALSE, passes |-> 0,
     emptyAtPass |-> size * size, call |-> 0,
     firstGrid |-> EmptyGrid(size), firstRet |-> FALSE, ret |-> FALSE]

SolveInit ==
    /\ \/ \E impl \in Impls, size \in 1..MaxSolveSize :
            \E G \in Grids(size) :
                sol = NewSolver(impl, size, TRUE, G, rHints(G, size), cHints(G, size))
       \/ \E impl \in Impls, size \in 1..MaxHintSize :
            \E rowHints \in [1..size -> HintLists], colHints \in [1..size -> HintLists] :
                sol = NewSolver(impl, size, FALSE, ZeroGrid(size), rowHints, colHints)
    /\ gen = Off /\ play = Off /\ ord = Off /\ run = Off /\ val = Off /\ day = Off /\ lin = Off /\ game = Off

\* solve() is called: let changed = true
SolveCall ==
    /\ sol.pc \in {"new", "returned"}
    /\ sol' = [sol EXCEPT !.pc = "while", !.changed = TRUE, !.passes = 0,
                          !.call = @ + 1]
    /\ UNCHANGED <<gen, play, ord, run, val, day, lin, game>>

\* while (changed) { changed = false; ...
WhileEnter ==
    /\ sol.pc = "while" /\ sol.changed
    /\ sol.passes < PassCap(sol.size)
    /\ sol' = [sol EXCEPT !.pc = "rows", !.idx = 0, !.changed = FALSE,
                          !.passes = @ + 1,
                          !.emptyAtPass = EmptyCount(sol.grid, sol.size)]
    /\ UNCHANGED <<gen, play, ord, run, val, day, lin, game>>

\* what the body of the row loop (type "row") or of the column loop leaves
\* in [grid, changed] for line idx
LineStep(s, type) ==
    IF s.impl = "NonogramSolver"
    THEN IF type = "row"
         THEN rowStep([grid |-> s.grid, changed |-> s.changed], s.idx,
                      solveLine(getRow(s.grid, s.idx), s.rowHints[s.idx + 1]))
         ELSE colStep([grid |-> s.grid, changed |-> s.changed], s.size, s.idx,
                      solveLine(getCol(s.grid, s.size, s.idx), s.colHints[s.idx + 1]))
    ELSE Solver_step(s.changed,
                     Solver_solveLine(s.grid, s.size, s.rowHints, s.colHints,
                                      type, s.idx))

\* sol after a step of one of the for loops that left st
AfterLine(s, st, nextPc) ==
    [s EXCEPT !.grid = st.grid, !.changed = st.changed,
              !.idx = IF s.idx + 1 < s.size THEN s.idx + 1 ELSE 0,
              !.pc = IF s.idx + 1 < s.size THEN s.pc ELSE nextPc]

\* for (let r = 0; r < this.size; r++) if (this.solveLine(row r)) changed = true
RowStep ==
    /\ sol.pc = "rows"
    /\ sol' = AfterLine(sol, LineStep(sol, "row"), "cols")
    /\ UNCHANGED <<gen, play, ord, run, val, day, lin, game>>

\* for (let c = 0; c < this.size; c++) if (this.solveLine(column c)) changed = true
ColStep ==
    /\ sol.pc = "cols"
    /\ sol' = AfterLine(sol, LineStep(sol, "col"), "while")
    /\ UNCHANGED <<gen, play, ord, run, val, day, lin, game>>

\* an isSolved that is content with one resolved cell
SolvedBy_anyResolved(s) ==
    \E r \in 0..(s.size - 1), c \in 0..(s.size - 1) : s.grid[r][c] /= EMPTY

\* isSolved of the class that runs
SolvedBy(s) ==
    IF s.impl = "NonogramSolver" THEN isSolved(s.grid, s.size)
    ELSE Solver_isSolved(s.grid, s.size)

\* the loop ends: return this.isSolved()
SolveReturn ==
    /\ sol.pc = "while" /\ ~sol.changed
    /\ sol' = [sol EXCEPT !.pc = IF sol.call = 1 THEN "returned" ELSE "done",
                          !.ret = SolvedBy(sol),
                          !.firstGrid = IF sol.call = 1 THEN sol.grid ELSE @,
                          !.firstRet = IF sol.call = 1 THEN SolvedBy(sol) ELSE @]
    /\ UNCHANGED <<gen, play, ord, run, val, day, lin, game>>

SolveNext == SolveCall \/ WhileEnter \/ RowStep \/ ColStep \/ SolveReturn

SpecSolve == SolveInit /\ [][SolveNext]_vars

\* the cells of the solver's grid
Cells == (0..(sol.size - 1)) \X (0..(sol.size - 1))

(***************************************************************************)
(* C4: during solve(), a cell that is FILLED or CROSSED keeps its value in *)
(* every later state: each step leaves every resolved cell as it was.      *)
(***************************************************************************)
C4_ResolvedCellsKeep ==
    [][\A rc \in Cells :
          sol.grid[rc[1]][rc[2]] /= EMPTY =>
              sol'.grid[rc[1]][rc[2]] = sol.grid[rc[1]][rc[2]]]_vars

\* a later pass is working on a grid that has resolved and unknown cells
C4_Witness ==
    /\ sol.pc = "cols" /\ sol.passes >= 2 /\ sol.size = 3
    /\ \E rc \in Cells : sol.grid[rc[1]][rc[2]] = FILLED
    /\ \E rc \in Cells : sol.grid[rc[1]][rc[2]] = CROSSED
    /\ \E rc \in Cells : sol.grid[rc[1]][rc[2]] = EMPTY

(***************************************************************************)
(* C5: with hints extracted from a 0/1 grid G, in every state of solve()   *)
(* a FILLED cell has G = 1 and a CROSSED cell has G = 0.                   *)
(***************************************************************************)
C5_NeverContradictsG ==
    sol.fromGrid =>
        \A rc \in Cells :
            /\ sol.grid[rc[1]][rc[2]] = FILLED => sol.G[rc[1]][rc[2]] = 1
            /\ sol.grid[rc[1]][rc[2]] = CROSSED => sol.G[rc[1]][rc[2]] = 0

\* solve() returned false on the clues of a grid, with cells of both kinds
\* resolved
C5_Witness ==
    /\ sol.fromGrid /\ sol.pc = "returned" /\ ~sol.ret
    /\ \E rc \in Cells : sol.grid[rc[1]][rc[2]] = FILLED
    /\ \E rc \in Cells : sol.grid[rc[1]][rc[2]] = CROSSED

(***************************************************************************)
(* C7: if solve() returns true on the clues extracted from G, G is the     *)
(* only 0/1 grid of that size with those row and column clues.             *)
(***************************************************************************)
C7_AcceptedIsUnique ==
    (sol.fromGrid /\ sol.pc \in {"returned", "done"} /\ sol.ret) =>
        \A H \in Grids(sol.size) :
            (rHints(H, sol.size) = sol.rowHints /\ cHints(H, sol.size) = sol.colHints)
                => H = sol.G

\* solve() returned true after more than one changing pass on a grid with
\* filled and blank cells
C7_Witness ==
    /\ sol.fromGrid /\ sol.pc = "returned" /\ sol.ret
    /\ sol.size = 3 /\ sol.passes >= 3
    /\ FillCount(sol.G, sol.size) \in 3..6

\* the guards of the five steps of SolveNext: solve() can be called, the
\* while loop can run another pass or end, or a for loop is at a line
CanStep(s) ==
    \/ s.pc \in {"new", "returned"}
    \/ s.pc = "while" /\ s.changed /\ s.passes < PassCap(s.size)
    \/ s.pc = "rows"
    \/ s.pc = "cols"
    \/ s.pc = "while" /\ ~s.changed

\* the place of a state in the run of a solver: the call, the pass, the loop
\* of the pass and the line of the loop; it is at most
\* ((2 * (PassCap + 1) + PassCap) * 4 + 3) * size + size
Rank(s) ==
    ((s.call * (PassCap(s.size) + 1) + s.passes) * 4
        + (CASE s.pc = "rows" -> 0 [] s.pc = "cols" -> 1 [] s.pc = "while" -> 2
             [] OTHER -> 3)) * s.size + s.idx

(***************************************************************************)
(* C8: solve() terminates for every size and every list of hints: a pass   *)
(* of the while loop that reports a change has resolved at least one cell  *)
(* that was unknown when the pass began, the loop runs at most             *)
(* size*size + 1 passes, and every call returns: until solve() has         *)
(* returned a step is always possible, and every step moves the solver     *)
(* forward in the bounded order call, pass, loop, line.                    *)
(***************************************************************************)
C8_SolveTerminates ==
    /\ [](sol.passes <= sol.size * sol.size + 1)
    /\ []((sol.pc = "while" /\ sol.passes > 0 /\ sol.changed) =>
              EmptyCount(sol.grid, sol.size) < sol.emptyAtPass)
    /\ [](sol.pc /= "done" => CanStep(sol))
    /\ [][Rank(sol') > Rank(sol)]_vars

\* a call on hints that came from no grid has returned after three passes
C8_Witness ==
    /\ ~sol.fromGrid /\ sol.pc = "returned" /\ sol.passes >= 3

(***************************************************************************)
(* C10: a second call of solve() leaves every cell as the first call left  *)
(* it and returns the same boolean, and a solver built anew from the same  *)
(* size and hints ends in the same grid.                                   *)
(***************************************************************************)
FreshSolve(s) ==
    IF s.impl = "NonogramSolver" THEN solve(s.size, s.rowHints, s.colHints)
    ELSE Solver_solve(s.size, s.rowHints, s.colHints)

C10_ResolveIdempotent ==
    /\ sol.call = 2 => sol.grid = sol.firstGrid
    /\ sol.pc = "done" =>
          /\ sol.ret = sol.firstRet
          /\ sol.grid = FreshSolve(sol).grid
          /\ sol.ret = FreshSolve(sol).solved

\* the second call has returned on a grid the first call left partly unknown
C10_Witness ==
    /\ sol.pc = "done" /\ ~sol.ret /\ sol.size = 3
    /\ \E rc \in Cells : sol.grid[rc[1]][rc[2]] /= EMPTY
    /\ \E rc \in Cells : sol.grid[rc[1]][rc[2]] = EMPTY

\* the line solveLine is about to read in state s, and its hints
CurLine(s) ==
    IF s.pc = "rows" THEN getRow(s.grid, s.idx) ELSE getCol(s.grid, s.size, s.idx)

CurHints(s) ==
    IF s.pc = "rows" THEN s.rowHints[s.idx + 1] ELSE s.colHints[s.idx + 1]

\* the same line of another grid
LineIn(grid, s) ==
    IF s.pc = "rows" THEN getRow(grid, s.idx) ELSE getCol(grid, s.size, s.idx)

\* the full lines whose run-length clue is hints and that agree with the
\* known cells of line
FullLines(line, hints) ==
    {f \in [DOMAIN line -> {FILLED, CROSSED}] :
        /\ calculateHints(f) = hints
        /\ \A i \in DOMAIN line : line[i] /= EMPTY => f[i] = line[i]}

\* the configurations the class that runs enumerates for the line
ConfigsOf(s) ==
    IF s.impl = "NonogramSolver" THEN getAllValidConfigs(CurLine(s), CurHints(s))
    ELSE Solver_getConfigs(CurLine(s), CurHints(s))

(***************************************************************************)
(* C11: a call of solveLine on a line that some full line with the clue    *)
(* hints agrees with turns an EMPTY cell FILLED exactly when every such    *)
(* full line fills it, CROSSED exactly when none does, and leaves it EMPTY *)
(* otherwise; FILLED and CROSSED cells stay; it returns true exactly when  *)
(* a cell changed (seen in changed, which the caller sets from it).        *)
(***************************************************************************)
C11_LineIsIntersection ==
    [][(sol.pc \in {"rows", "cols"} /\ FullLines(CurLine(sol), CurHints(sol)) /= {}) =>
          /\ \A i \in DOMAIN CurLine(sol) :
                /\ LineIn(sol'.grid, sol)[i] \in {EMPTY, FILLED, CROSSED}
                /\ CurLine(sol)[i] /= EMPTY => LineIn(sol'.grid, sol)[i] = CurLine(sol)[i]
                /\ CurLine(sol)[i] = EMPTY =>
                      /\ LineIn(sol'.grid, sol)[i] = FILLED <=>
                            \A f \in FullLines(CurLine(sol), CurHints(sol)) : f[i] = FILLED
                      /\ LineIn(sol'.grid, sol)[i] = CROSSED <=>
                            \A f \in FullLines(CurLine(sol), CurHints(sol)) : f[i] /= FILLED
          /\ sol.changed = FALSE =>
                (sol'.changed <=> LineIn(sol'.grid, sol) /= CurLine(sol))]_vars

\* solveLine has just run on a line of three cells that a full line agrees
\* with: it holds a cell resolved and a cell left unknown
C11_Witness ==
    /\ sol.pc \in {"rows", "cols"} /\ sol.idx >= 1 /\ sol.size = 3
    /\ LET done == [sol EXCEPT !.idx = sol.idx - 1]
       IN  /\ FullLines(CurLine(done), CurHints(done)) /= {}
           /\ \E i \in DOMAIN CurLine(done) : CurLine(done)[i] = FILLED
           /\ \E i \in DOMAIN CurLine(done) : CurLine(done)[i] = EMPTY

\* hints that are a clue: a single 0, or positive run lengths
IsClue(hints) ==
    \/ hints = <<0>>
    \/ Len(hints) >= 1 /\ \A k \in 1..Len(hints) : hints[k] > 0

(***************************************************************************)
(* C12: a call of solveLine on a line with no valid configuration (the     *)
(* class enumerates none, or hints is a clue that no full line agreeing    *)
(* with the known cells has) is a step that leaves every cell of the grid  *)
(* as it was and reports no change.                                        *)
(***************************************************************************)
C12_NoConfigNoChange ==
    [][(/\ sol.pc \in {"rows", "cols"}
        /\ \/ Len(ConfigsOf(sol)) = 0
           \/ IsClue(CurHints(sol)) /\ FullLines(CurLine(sol), CurHints(sol)) = {}) =>
          /\ sol'.grid = sol.grid
          /\ sol'.changed = sol.changed
          /\ sol'.pc \in {"rows", "cols", "while"}]_vars

\* solveLine has just run on a line whose known cells contradict its clue,
\* or on a line its hints do not fit
C12_Witness ==
    /\ sol.pc \in {"rows", "cols"} /\ sol.idx >= 1
    /\ LET done == [sol EXCEPT !.idx = sol.idx - 1]
       IN  /\ Len(ConfigsOf(done)) = 0
           /\ \/ \E i \in DOMAIN CurLine(done) : CurLine(done)[i] /= EMPTY
              \/ SumFrom(CurHints(done), 0) + Len(CurHints(done)) - 1 > sol.size

(***************************************************************************)
(* C25: what a solve() that returned true leaves in the grid.              *)
(***************************************************************************)
\* the 0/1 grid a solver grid stands for: 1 where the cell is FILLED
Marks(grid, size) ==
    [r \in 0..(size - 1) |-> [c \in 0..(size - 1) |->
        IF grid[r][c] = FILLED THEN 1 ELSE 0]]

\* a hint list as a clue: its runs, a 0 standing for no run
Runs(hints) == SelectSeq(hints, LAMBDA h : h > 0)

\* every row and column of the solver's grid has the clue the constructor
\* was given for it
CluesMatch(s) ==
    /\ \A r \in 1..s.size :
          Runs(rHints(Marks(s.grid, s.size), s.size)[r]) = Runs(s.rowHints[r])
    /\ \A c \in 1..s.size :
          Runs(cHints(Marks(s.grid, s.size), s.size)[c]) = Runs(s.colHints[c])

\* C25 as stated: for any hint lists, a solve() that returned true left
\* every cell resolved and every row and column with a run-length clue
\* equal to its rowHints or colHints entry.
C25_TrueMeansSolved ==
    (sol.pc \in {"returned", "done"} /\ sol.ret) =>
        /\ \A rc \in Cells : sol.grid[rc[1]][rc[2]] /= EMPTY
        /\ CluesMatch(sol)

\* C25 amended: for any hint lists, a solve() that returned true left every
\* cell resolved; when the hints were extracted from a grid, every row and
\* column of the result has the clue it was given.
C25_TrueMeansResolved ==
    (sol.pc \in {"returned", "done"} /\ sol.ret) =>
        /\ \A rc \in Cells : sol.grid[rc[1]][rc[2]] /= EMPTY
        /\ sol.fromGrid => CluesMatch(sol)

\* solve() returned true on the clues of a 3x3 grid with a run in every row
\* and a blank cell
C25_Witness ==
    /\ sol.pc = "returned" /\ sol.ret
    /\ sol.fromGrid /\ sol.size = 3
    /\ \A r \in 1..3 : sol.rowHints[r] /= <<0>>
    /\ \E rc \in Cells : sol.grid[rc[1]][rc[2]] = CROSSED

(***************************************************************************)
(* SpecLine: the functions of one line.  A solver line and a list of hints *)
(* are given to getAllValidConfigs of NonogramSolver and to getConfigs of  *)
(* Solver.                                                                 *)
(***************************************************************************)
SolverLines == UNION {[0..(n - 1) -> {EMPTY, FILLED, CROSSED}] : n \in 1..MaxLineLen}

\* the rows and columns of a puzzle grid: lines of 0 and 1
GridLines == UNION {[0..(n - 1) -> {0, 1}] : n \in 0..MaxCellsLen}

LineInit ==
    /\ \/ \E line \in SolverLines, hints \in HintLists :
            lin = [pc |-> "line", line |-> line, hints |-> hints,
                   clientPc |-> "idle", results |-> <<>>,
                   scriptPc |-> "idle", scriptResults |-> <<>>]
       \/ \E line \in GridLines :
            lin = [pc |-> "cells", line |-> line,
                   scriptPc |-> "idle", hints |-> <<>>,
                   memoPc |-> "idle", memo |-> <<>>]
    /\ gen = Off /\ play = Off /\ sol = Off /\ ord = Off /\ run = Off /\ val = Off
    /\ day = Off /\ game = Off

\* NonogramSolver.getAllValidConfigs(line, hints)
LineGetAllValidConfigs ==
    /\ lin.pc = "line" /\ lin.clientPc = "idle"
    /\ lin' = [lin EXCEPT !.clientPc = "done",
                          !.results = getAllValidConfigs(lin.line, lin.hints)]
    /\ UNCHANGED <<gen, play, sol, ord, run, val, day, game>>

\* Solver.getConfigs(line, hints)
LineGetConfigs ==
    /\ lin.pc = "line" /\ lin.scriptPc = "idle"
    /\ lin' = [lin EXCEPT !.scriptPc = "done",
                          !.scriptResults = Solver_getConfigs(lin.line, lin.hints)]
    /\ UNCHANGED <<gen, play, sol, ord, run, val, day, game>>

\* calculateHints(line) of the seed script
LineCalculateHints ==
    /\ lin.pc = "cells" /\ lin.scriptPc = "idle"
    /\ lin' = [lin EXCEPT !.scriptPc = "done", !.hints = calculateHints(lin.line)]
    /\ UNCHANGED <<gen, play, sol, ord, run, val, day, game>>

\* the Hints component renders line: its memo computes the hints
LineHintsMemo ==
    /\ lin.pc = "cells" /\ lin.memoPc = "idle"
    /\ lin' = [lin EXCEPT !.memoPc = "done", !.memo = Hints_hints(lin.line)]
    /\ UNCHANGED <<gen, play, sol, ord, run, val, day, game>>

LineNext ==
    \/ LineGetAllValidConfigs \/ LineGetConfigs
    \/ LineCalculateHints \/ LineHintsMemo

SpecLine == LineInit /\ [][LineNext]_vars

\* the elements of a list
Elements(list) == {list[k] : k \in 1..Len(list)}

(***************************************************************************)
(* C21 as stated: for every line and every list of hints, the lists        *)
(* returned by getAllValidConfigs and by getConfigs hold exactly the full  *)
(* lines whose run-length clue is hints and that agree with the known      *)
(* cells of line.                                                          *)
(***************************************************************************)
C21_ConfigsAreFullLines ==
    /\ (lin.pc = "line" /\ lin.clientPc = "done") =>
          Elements(lin.results) = FullLines(lin.line, lin.hints)
    /\ (lin.pc = "line" /\ lin.scriptPc = "done") =>
          Elements(lin.scriptResults) = FullLines(lin.line, lin.hints)

(***************************************************************************)
(* C21 amended: the same when hints is a clue, that is a single 0 or a     *)
(* list of positive run lengths.                                           *)
(***************************************************************************)
C21_ConfigsAreFullLinesOfClue ==
    (lin.pc = "line" /\ IsClue(lin.hints)) =>
        /\ lin.clientPc = "done" =>
              Elements(lin.results) = FullLines(lin.line, lin.hints)
        /\ lin.scriptPc = "done" =>
              Elements(lin.scriptResults) = FullLines(lin.line, lin.hints)

\* getAllValidConfigs has returned two configurations at least for a clue of
\* two runs on a line with a known filled cell and a known crossed cell,
\* fewer than the clue has on the all-unknown line
C21_Witness ==
    /\ lin.pc = "line" /\ lin.clientPc = "done"
    /\ IsClue(lin.hints) /\ Len(lin.hints) = 2
    /\ \E i \in DOMAIN lin.line : lin.line[i] = FILLED
    /\ \E i \in DOMAIN lin.line : lin.line[i] = CROSSED
    /\ Len(lin.results) >= 2
    /\ Len(lin.results)
          < Cardinality(FullLines([i \in DOMAIN lin.line |-> EMPTY], lin.hints))

(***************************************************************************)
(* C30: calculateHints(line) is the list of the lengths of the maximal     *)
(* runs of consecutive 1 cells of line, from left to right; it is [0]      *)
(* exactly when line has no 1 cell; the memo of the Hints component has    *)
(* the same list for the same line.                                        *)
(***************************************************************************)
\* the maximal runs of 1 cells of line, each as <<first cell, last cell>>
MaximalRuns(line) ==
    {span \in (DOMAIN line) \X (DOMAIN line) :
        /\ span[1] <= span[2]
        /\ \A i \in span[1]..span[2] : line[i] = 1
        /\ (span[1] - 1 \in DOMAIN line => line[span[1] - 1] /= 1)
        /\ (span[2] + 1 \in DOMAIN line => line[span[2] + 1] /= 1)}

\* hints lists the lengths of the maximal runs of line from left to right
IsRunLengths(hints, line) ==
    /\ Len(hints) = Cardinality(MaximalRuns(line))
    /\ \A span \in MaximalRuns(line) :
          hints[1 + Cardinality({q \in MaximalRuns(line) : q[1] < span[1]})]
              = span[2] - span[1] + 1

C30_HintsAreMaximalRuns ==
    /\ (lin.pc = "cells" /\ lin.scriptPc = "done") =>
          /\ (\E i \in DOMAIN lin.line : lin.line[i] = 1) => IsRunLengths(lin.hints, lin.line)
          /\ lin.hints = <<0>> <=> ~(\E i \in DOMAIN lin.line : lin.line[i] = 1)
    /\ (lin.pc = "cells" /\ lin.scriptPc = "done" /\ lin.memoPc = "done") =>
          lin.memo = lin.hints

\* both computations have run on a line with three runs, of which one is
\* longer than one cell and one ends the line
C30_Witness ==
    /\ lin.pc = "cells" /\ lin.scriptPc = "done" /\ lin.memoPc = "done"
    /\ Len(lin.hints) = 3
    /\ \E k \in 1..3 : lin.hints[k] > 1
    /\ lin.line[LineLen(lin.line) - 1] = 1

(***************************************************************************)
(* SpecAnyOrder: solveLine of NonogramSolver is applied to the rows and    *)
(* columns in any order, on the clues of a grid G, from the all-unknown    *)
(* grid.  first is the kind of the first line that changed.                *)
(***************************************************************************)
OrderInit ==
    /\ \E size \in 1..MaxOrderSize :
          \E G \in Grids(size) :
              ord = [size |-> size, G |-> G, rowHints |-> rHints(G, size),
                     colHints |-> cHints(G, size), grid |-> EmptyGrid(size),
                     first |-> "none"]
    /\ gen = Off /\ play = Off /\ sol = Off /\ run = Off /\ val = Off /\ day = Off /\ lin = Off /\ game = Off

\* ord after solveLine returned res for a line of kind type and grid is the
\* updated grid
OrderStepped(o, grid, type) ==
    [o EXCEPT !.grid = grid, !.first = IF @ = "none" THEN type ELSE @]

\* solveLine on row r, when it changes the row
OrderRow ==
    /\ \E r \in 0..(ord.size - 1) :
          /\ solveLine(getRow(ord.grid, r), ord.rowHints[r + 1]).changed
          /\ ord' = OrderStepped(ord,
                        updateRow(ord.grid, r,
                                  solveLine(getRow(ord.grid, r), ord.rowHints[r + 1])),
                        "row")
    /\ UNCHANGED <<gen, play, sol, run, val, day, lin, game>>

\* solveLine on column c, when it changes the column
OrderCol ==
    /\ \E c \in 0..(ord.size - 1) :
          /\ solveLine(getCol(ord.grid, ord.size, c), ord.colHints[c + 1]).changed
          /\ ord' = OrderStepped(ord,
                        updateCol(ord.grid, ord.size, c,
                                  solveLine(getCol(ord.grid, ord.size, c),
                                            ord.colHints[c + 1])),
                        "col")
    /\ UNCHANGED <<gen, play, sol, run, val, day, lin, game>>

OrderNext == OrderRow \/ OrderCol

SpecAnyOrder == OrderInit /\ [][OrderNext]_vars

\* no line changes any more
Quiescent(o) ==
    /\ \A r \in 0..(o.size - 1) :
          ~solveLine(getRow(o.grid, r), o.rowHints[r + 1]).changed
    /\ \A c \in 0..(o.size - 1) :
          ~solveLine(getCol(o.grid, o.size, c), o.colHints[c + 1]).changed

(***************************************************************************)
(* C9: for hints extracted from a grid, applying solveLine to rows and     *)
(* columns in any order until no line changes ends in the grid solve()     *)
(* ends in with its own order.                                             *)
(***************************************************************************)
C9_AnyOrderSameGrid ==
    Quiescent(ord) =>
        ord.grid = solve(ord.size, ord.rowHints, ord.colHints).grid

\* an order that began with a column has ended, on a 3 x 3 grid it could
\* not resolve fully
C9_Witness ==
    /\ ord.first = "col" /\ ord.size = 3
    /\ Quiescent(ord)
    /\ \E r \in 0..2, c \in 0..2 : ord.grid[r][c] = EMPTY
    /\ \E r \in 0..2, c \in 0..2 : ord.grid[r][c] /= EMPTY

(***************************************************************************)
(* SpecPool: run() of scripts/generate-seeds.cjs, one attempt per step.    *)
(***************************************************************************)
GRID_SIZES_script == <<MaxPoolSize - 1, MaxPoolSize>>

\* the keys of DIFFICULTY_CONFIG in the order of Object.entries
DIFFICULTY_KEYS_script == <<"VERY_EASY", "EASY", "MEDIUM", "HARD", "VERY_HARD">>

\* solver.solve() on the hints of grid: the generated grid, the value
\* returned and the solver's grid
solveGenerated(grid, size) ==
    [grid |-> grid, solver |-> Solver_solve(size, rHints(grid, size), cHints(grid, size))]

\* the body of the while loop up to solver.solve(), for one seed
attempt(seed, size, diffConfig) == solveGenerated(generateGrid(seed, size, diffConfig), size)

\* attempt, for every configuration and seed of the model; run.memo holds it,
\* so that a step looks the result of an attempt up
Attempts ==
    [size \in {GRID_SIZES_script[i] : i \in 1..Len(GRID_SIZES_script)} |->
        [diffKey \in {DIFFICULTY_KEYS_script[i] : i \in 1..Len(DIFFICULTY_KEYS_script)} |->
            [seed \in 0..MaxPoolSeed |->
                attempt(seed, size, DIFFICULTY_CONFIG_script[diffKey])]]]

\* a seed that would be pushed whether or not it was solved
pushIfSolved_always(seeds, seed, solved) == Append(seeds, seed)

\* if (solver.solve()) { pool[configKey].push(seed); }
pushIfSolved(seeds, seed, solved) == IF solved THEN Append(seeds, seed) ELSE seeds

\* const configKey = `${size}:${diffKey}`
configKey(r) == <<GRID_SIZES_script[r.si], DIFFICULTY_KEYS_script[r.di]>>

PoolInit ==
    /\ run = [pc |-> "for", si |-> 1, di |-> 1, pool |-> <<>>, attempts |-> 0,
              last |-> [seed |-> 0, solved |-> FALSE, added |-> FALSE],
              file |-> <<>>, memo |-> Attempts]
    /\ gen = Off /\ play = Off /\ sol = Off /\ ord = Off /\ val = Off /\ day = Off /\ lin = Off /\ game = Off

\* the head of the inner for loop: pool[configKey] = []; let attempts = 0
PoolConfig ==
    /\ run.pc = "for"
    /\ run' = [run EXCEPT !.pc = "while", !.attempts = 0,
                          !.pool = (configKey(run) :> <<>>) @@ run.pool]
    /\ UNCHANGED <<gen, play, sol, ord, val, day, lin, game>>

\* run after an attempt with seed whose solve() returned solved
Attempted(r, seed, solved) ==
    [r EXCEPT !.attempts = @ + 1,
              !.pool[configKey(r)] = pushIfSolved(@, seed, solved),
              !.last = [seed |-> seed, solved |-> solved,
                        added |-> Len(pushIfSolved(r.pool[configKey(r)], seed, solved))
                                      > Len(r.pool[configKey(r)])]]

\* a while loop that forgets the attempt budget
PoolAttempt_noBudget ==
    /\ run.pc = "while"
    /\ Len(run.pool[configKey(run)]) < SEEDS_PER_CONFIG
    /\ \E seed \in 0..MaxPoolSeed :
          run' = Attempted(run, seed,
                           run.memo[configKey(run)[1]][configKey(run)[2]][seed].solver.solved)
    /\ UNCHANGED <<gen, play, sol, ord, val, day, lin, game>>

\* one turn of the while loop
PoolAttempt ==
    /\ run.pc = "while"
    /\ Len(run.pool[configKey(run)]) < SEEDS_PER_CONFIG
    /\ run.attempts < MaxAttempts
    /\ \E seed \in 0..MaxPoolSeed :
          run' = Attempted(run, seed,
                           run.memo[configKey(run)[1]][configKey(run)[2]][seed].solver.solved)
    /\ UNCHANGED <<gen, play, sol, ord, val, day, lin, game>>

\* the while loop ends: the next difficulty, the next size, or the end of
\* the loops
PoolNextConfig ==
    /\ run.pc = "while"
    /\ ~(Len(run.pool[configKey(run)]) < SEEDS_PER_CONFIG /\ run.attempts < MaxAttempts)
    /\ run' = IF run.di < Len(DIFFICULTY_KEYS_script)
              THEN [run EXCEPT !.pc = "for", !.di = @ + 1]
              ELSE IF run.si < Len(GRID_SIZES_script)
              THEN [run EXCEPT !.pc = "for", !.di = 1, !.si = @ + 1]
              ELSE [run EXCEPT !.pc = "write"]
    /\ UNCHANGED <<gen, play, sol, ord, val, day, lin, game>>

\* fs.writeFileSync(outputPath, JSON.stringify(pool, null, 2))
PoolWrite ==
    /\ run.pc = "write"
    /\ run' = [run EXCEPT !.pc = "done", !.file = run.pool]
    /\ UNCHANGED <<gen, play, sol, ord, val, day, lin, game>>

PoolNext == PoolConfig \/ PoolAttempt \/ PoolNextConfig \/ PoolWrite

SpecPool == PoolInit /\ [][PoolNext]_vars

\* grid as a fully resolved solver grid: FILLED where it is 1, CROSSED where 0
Resolved(grid, size) ==
    [r \in 0..(size - 1) |-> [c \in 0..(size - 1) |->
        IF grid[r][c] = 1 THEN FILLED ELSE CROSSED]]

(***************************************************************************)
(* C6: every seed in pool[size:difficulty] is a seed whose grid, generated *)
(* with that size and density range, the solver resolved fully and exactly *)
(* from its clues; a seed whose solve() returned false is not added.       *)
(***************************************************************************)
C6_PoolSeedsSolved ==
    /\ \A key \in DOMAIN run.pool :
          \A i \in 1..Len(run.pool[key]) :
              /\ run.memo[key[1]][key[2]][run.pool[key][i]].solver.solved
              /\ run.memo[key[1]][key[2]][run.pool[key][i]].solver.grid
                    = Resolved(run.memo[key[1]][key[2]][run.pool[key][i]].grid, key[1])
    /\ run.last.added => run.last.solved

\* the pool of the second size holds a seed, and the last attempt's seed
\* was not solved
C6_Witness ==
    /\ run.si = 2 /\ run.pc = "while"
    /\ Len(run.pool[configKey(run)]) > 0
    /\ run.attempts = 2 /\ ~run.last.solved

(***************************************************************************)
(* C29: for each configuration the while loop of run() ends with at most   *)
(* SEEDS_PER_CONFIG seeds in its pool and at most the attempt budget of    *)
(* attempts made (every turn counts one attempt); when the budget is used  *)
(* up before the pool is full, run() goes on to the next configuration,    *)
(* or to the write after the last one, leaving the pool as it is; the file *)
(* written has an entry for every configuration, full or smaller.          *)
(***************************************************************************)
\* every configKey of the two for loops
ConfigKeys ==
    {<<GRID_SIZES_script[i], DIFFICULTY_KEYS_script[j]>> :
        i \in 1..Len(GRID_SIZES_script), j \in 1..Len(DIFFICULTY_KEYS_script)}

\* the while loop is at its test with the budget used up and the pool of
\* the configuration not full
BudgetExhausted(r) ==
    /\ r.pc = "while" /\ r.attempts >= MaxAttempts
    /\ Len(r.pool[configKey(r)]) < SEEDS_PER_CONFIG

\* the configuration after the one of r in the order of the for loops
IsNextConfig(r, r2) ==
    \/ r.di < Len(DIFFICULTY_KEYS_script) /\ r2.si = r.si /\ r2.di = r.di + 1
    \/ r.di = Len(DIFFICULTY_KEYS_script) /\ r2.si = r.si + 1 /\ r2.di = 1

C29_AttemptLoopBounded ==
    /\ [](/\ run.attempts <= MaxAttempts
          /\ \A key \in DOMAIN run.pool : Len(run.pool[key]) <= SEEDS_PER_CONFIG
          /\ run.pc = "done" =>
                /\ DOMAIN run.file = ConfigKeys
                /\ run.file = run.pool)
    /\ [][/\ (run.pc = "while" /\ run'.pc = "while") =>
                run'.attempts = run.attempts + 1
          /\ BudgetExhausted(run) =>
                /\ run'.pool = run.pool
                /\ \/ run'.pc = "for" /\ IsNextConfig(run, run')
                   \/ /\ run'.pc = "write"
                      /\ run.si = Len(GRID_SIZES_script)
                      /\ run.di = Len(DIFFICULTY_KEYS_script)]_vars

\* run() has written a file in which one configuration has a full pool,
\* another a smaller one and another an empty one
C29_Witness ==
    /\ run.pc = "done"
    /\ \E key \in ConfigKeys : Len(run.file[key]) = SEEDS_PER_CONFIG
    /\ \E key \in ConfigKeys : Len(run.file[key]) \in 1..(SEEDS_PER_CONFIG - 1)
    /\ \E key \in ConfigKeys : Len(run.file[key]) = 0

(***************************************************************************)
(* SpecGame: the useGameLogic hook of one browser tab outside daily mode.  *)
(* startNewGame runs in two steps, before and after the await of           *)
(* generatePuzzle (which waits 50 ms); the setTimeout callbacks of         *)
(* handleBlast fire one at a time, in the order of their delays, each with *)
(* the updateCell of the render in which Blast was pressed.  The win check *)
(* (an effect on playerGrid, puzzle and status) runs with every commit.    *)
(* A nullable value is a sequence of length 0 or 1.                        *)
(***************************************************************************)
INITIAL_COINS == 20
BLAST_COST == 3
SURVIVAL_LIVES == 3

\* createEmptyGrid(size)
createEmptyGrid(size) == [r \in 0..(size - 1) |-> [c \in 0..(size - 1) |-> EMPTY]]

\* hash |= 0 on the hashes of the strings of TypedSeeds, which are all below
\* 2^31: the value is kept
ToInt32(x) == x

\* str.charCodeAt(i) for the strings of TypedSeeds
charCodes(str) == IF str = "a" THEN <<97>> ELSE <<>>

RECURSIVE hashFrom(_, _, _)
\* the loop of stringToSeed from character i on
hashFrom(codes, i, hash) ==
    IF i > Len(codes) THEN hash
    ELSE hashFrom(codes, i + 1, ToInt32(hash * 32 - hash + codes[i]))

\* stringToSeed(str)
stringToSeed(str) ==
    LET hash == hashFrom(charCodes(str), 1, 0)
    IN  IF hash < 0 THEN 0 - hash ELSE hash

\* the seeds a decimal numeral of the model can read
Numerals == 0..99

\* /^\d+$/.test(seedVal) ? parseInt(seedVal, 10) : stringToSeed(seedVal)
seedOfInput(seedVal) ==
    IF \E n \in Numerals : ToString(n) = seedVal
    THEN CHOOSE n \in Numerals : ToString(n) = seedVal
    ELSE stringToSeed(seedVal)

\* what a player types into a seed input
TypedSeeds == {"a"}

GameSizes == 1..MaxGameSize

GameDifficulties == {"MEDIUM"}

GameModes == {"classic", "survival"}

\* the challenges a link can carry
Challenges == [seed : 0..MaxGameSeed, size : {MaxGameSize}, difficulty : {"MEDIUM"}]

\* useState<PuzzleData | null>(null)
NoPuzzle == [grid |-> createEmptyGrid(0), size |-> 0, seed |-> 0, difficulty |-> ""]

\* finalSeed, finalSize and finalDiff of startNewGame(seedVal, forceRandom)
\* outside daily mode (Priority 1, 3 and 4); randomSeed is the seed Priority 4
\* draws
FinalConfig(g, seedVal, forceRandom, randomSeed) ==
    IF Len(seedVal) > 0
    THEN [seed |-> seedOfInput(seedVal[1]), size |-> g.selectedSize,
          difficulty |-> g.selectedDifficulty, how |-> "typed"]
    ELSE IF Len(g.challengeData) > 0 /\ ~forceRandom
    THEN [seed |-> g.challengeData[1].seed, size |-> g.challengeData[1].size,
          difficulty |-> g.challengeData[1].difficulty, how |-> "challenge"]
    ELSE [seed |-> randomSeed, size |-> g.selectedSize,
          difficulty |-> g.selectedDifficulty, how |-> "pool"]

\* startNewGame(seedVal, forceRandom) up to the await: status 'loading',
\* setTimer(0), setLives, setHistory([]), the configuration of the puzzle to
\* generate; Priority 4 forgets the challenge of the URL
startNewGame_begin(g, seedVal, forceRandom, randomSeed, via) ==
    LET cfg == FinalConfig(g, seedVal, forceRandom, randomSeed)
    IN  [g EXCEPT !.status = "loading", !.timer = 0, !.lives = SURVIVAL_LIVES,
                  !.history = <<>>, !.events = @ + 1,
                  !.next = <<[seed |-> cfg.seed, size |-> cfg.size,
                              difficulty |-> cfg.difficulty, how |-> cfg.how,
                              via |-> via]>>,
                  !.challengeData = IF cfg.how = "pool" THEN <<>> ELSE @]

\* the win check: every cell of the solution FILLED and no other cell FILLED
isWin(puzzle, playerGrid) ==
    \A r \in 0..(puzzle.size - 1), c \in 0..(puzzle.size - 1) :
        /\ ~(puzzle.grid[r][c] = 1 /\ playerGrid[r][c] /= FILLED)
        /\ ~(puzzle.grid[r][c] = 0 /\ playerGrid[r][c] = FILLED)

\* the effect "Check for win condition" after a commit
checkWin(g) ==
    IF g.status = "playing" /\ isWin(g.puzzle, g.playerGrid)
    THEN [g EXCEPT !.status = "won"]
    ELSE g

\* survival mode: FILL on a cell the solution leaves blank
IsMistake(gameMode, target, newState) ==
    gameMode = "survival" /\ target = 0 /\ newState = FILLED

\* updateCell(r, c, newState) of a render whose puzzle, status 'playing',
\* timer and gameMode are in closure, run on the state g of its call.
\* prev[r] undefined throws a TypeError; a column past the end of the row
\* lengthens the row
updateCell(g, closure, r, c, newState) ==
    IF r \notin DOMAIN g.playerGrid
    THEN [g EXCEPT !.status = "crashed"]
    ELSE IF c \in DOMAIN g.playerGrid[r] /\ g.playerGrid[r][c] = newState
    THEN g
    ELSE LET mistake == IsMistake(closure.gameMode, closure.puzzle.grid[r][c], newState)
             written == IF mistake THEN CROSSED ELSE newState
             newRow == (c :> written) @@ g.playerGrid[r]
             newLives == IF mistake THEN g.lives - 1 ELSE g.lives
         IN  [g EXCEPT !.playerGrid = [@ EXCEPT ![r] = newRow],
                       !.lives = newLives,
                       !.status = IF mistake /\ newLives <= 0 THEN "game_over" ELSE @,
                       !.history = Append(@, [r |-> r, c |-> c, newState |-> written,
                                              time |-> closure.timer * 1000])]

\* the closure of the render of state g
Render(g) == [puzzle |-> g.puzzle, timer |-> g.timer, gameMode |-> g.gameMode]

\* the seeds a game of the model can have
GameSeeds == (0..MaxGameSeed) \cup {seedOfInput(seedVal) : seedVal \in TypedSeeds}

\* the grid generatePuzzle(seed, size, DIFFICULTY_CONFIG[difficulty]) returns,
\* for every <<size, seed, difficulty>> of the model, computed once
GeneratedGrids ==
    [k \in GameSizes \X GameSeeds \X GameDifficulties |->
        generatePuzzle(k[2], k[1], DIFFICULTY_CONFIG[k[3]]).grid]

\* the hook after mount: the effect "Auto-start" has called startNewGame()
MountedGame(challengeData, urlSize, urlDifficulty, randomSeed) ==
    startNewGame_begin(
        [status |-> "loading", gameMode |-> "classic",
         selectedSize |-> IF Len(challengeData) > 0 THEN challengeData[1].size
                          ELSE urlSize,
         selectedDifficulty |-> IF Len(challengeData) > 0
                                THEN challengeData[1].difficulty ELSE urlDifficulty,
         challengeData |-> challengeData, puzzle |-> NoPuzzle, how |-> "",
         playerGrid |-> createEmptyGrid(0), history |-> <<>>, timer |-> 0,
         lives |-> SURVIVAL_LIVES, coins |-> INITIAL_COINS, drag |-> <<>>,
         pending |-> <<>>, next |-> <<>>, events |-> -1,
         generated |-> GeneratedGrids],
        <<>>, FALSE, randomSeed, "start")

GameInit ==
    /\ \E challengeData \in {<<>>} \cup {<<ch>> : ch \in Challenges},
          urlSize \in GameSizes, urlDifficulty \in {"MEDIUM"},
          randomSeed \in 0..MaxGameSeed :
          game = MountedGame(challengeData, urlSize, urlDifficulty, randomSeed)
    /\ gen = Off /\ play = Off /\ sol = Off /\ ord = Off /\ run = Off /\ val = Off
    /\ day = Off /\ lin = Off

\* startNewGame after the await: setPuzzle(newPuzzle),
\* setPlayerGrid(createEmptyGrid(newPuzzle.size)), status 'playing'
GameStarted ==
    /\ game.status = "loading" /\ Len(game.next) > 0
    /\ LET cfg == game.next[1]
           newPuzzle == [grid |-> game.generated[<<cfg.size, cfg.seed, cfg.difficulty>>],
                         size |-> cfg.size, seed |-> cfg.seed,
                         difficulty |-> cfg.difficulty]
       IN  game' = checkWin([game EXCEPT !.puzzle = newPuzzle, !.how = cfg.how,
                                         !.playerGrid = createEmptyGrid(cfg.size),
                                         !.status = "playing", !.next = <<>>])
    /\ UNCHANGED <<gen, play, sol, ord, run, val, day, lin>>

\* a call of startNewGame can begin: at most MaxStartsInFlight at a time
CanStart ==
    /\ Len(game.next) < MaxStartsInFlight /\ game.events < MaxEvents
    /\ game.status /= "crashed"

\* the New Game and Play Again buttons: startNewGame(undefined, true)
NewGame ==
    /\ CanStart
    /\ \E randomSeed \in 0..MaxGameSeed :
          game' = startNewGame_begin(game, <<>>, TRUE, randomSeed, "start")
    /\ UNCHANGED <<gen, play, sol, ord, run, val, day, lin>>

\* startNewGame(seedVal) with a seed typed by the player
TypedGame ==
    /\ CanStart
    /\ \E seedVal \in TypedSeeds :
          game' = startNewGame_begin(game, <<seedVal>>, FALSE, 0, "start")
    /\ UNCHANGED <<gen, play, sol, ord, run, val, day, lin>>

\* the size selector, the difficulty selector or the mode selector changes a
\* setting; the effect "Auto-start" then calls startNewGame()
ChangeSetting ==
    /\ CanStart
    /\ \E size \in GameSizes, difficulty \in GameDifficulties, mode \in GameModes,
          randomSeed \in 0..MaxGameSeed :
          /\ <<size, difficulty, mode>> /=
                 <<game.selectedSize, game.selectedDifficulty, game.gameMode>>
          /\ Cardinality({i \in 1..3 :
                 <<size, difficulty, mode>>[i] /=
                 <<game.selectedSize, game.selectedDifficulty, game.gameMode>>[i]}) = 1
          /\ game' = startNewGame_begin(
                        [game EXCEPT !.selectedSize = size,
                                     !.selectedDifficulty = difficulty,
                                     !.gameMode = mode],
                        <<>>, FALSE, randomSeed, "start")
    /\ UNCHANGED <<gen, play, sol, ord, run, val, day, lin>>

\* restartCurrentGame: setPlayerGrid(createEmptyGrid(puzzle.size)), setTimer(0),
\* setLives, then startNewGame(puzzle.seed.toString(), false)
restartCurrentGame ==
    /\ CanStart /\ game.puzzle.size > 0
    /\ game' = startNewGame_begin(
                  [game EXCEPT !.playerGrid = createEmptyGrid(game.puzzle.size)],
                  <<ToString(game.puzzle.seed)>>, FALSE, 0, "restart")
    /\ UNCHANGED <<gen, play, sol, ord, run, val, day, lin>>

Tools == {"FILL", "CROSS"}

\* targetState of handleMouseDown for the tool and the cell's state
targetStateOf(tool, currentCell) ==
    IF tool = "FILL"
    THEN (IF currentCell = FILLED THEN EMPTY ELSE FILLED)
    ELSE (IF currentCell = CROSSED THEN EMPTY ELSE CROSSED)

\* the cells of the puzzle in play
GameCells == (0..(game.puzzle.size - 1)) \X (0..(game.puzzle.size - 1))

\* handleMouseDown(e, r, c) with the active tool or the right button
handleMouseDown ==
    /\ game.status = "playing" /\ game.events < MaxEvents
    /\ \E rc \in GameCells, tool \in Tools :
          LET targetState == targetStateOf(tool, game.playerGrid[rc[1]][rc[2]])
          IN  game' = checkWin(updateCell([game EXCEPT !.drag = <<targetState>>,
                                                       !.events = @ + 1],
                                          Render(game), rc[1], rc[2], targetState))
    /\ UNCHANGED <<gen, play, sol, ord, run, val, day, lin>>

\* handleMouseEnter(e, r, c) while dragging
handleMouseEnter ==
    /\ game.status = "playing" /\ game.events < MaxEvents
    /\ Len(game.drag) > 0
    /\ \E rc \in GameCells :
          game' = checkWin(updateCell([game EXCEPT !.events = @ + 1], Render(game),
                                      rc[1], rc[2], game.drag[1]))
    /\ UNCHANGED <<gen, play, sol, ord, run, val, day, lin>>

\* handleGlobalMouseUp
handleGlobalMouseUp ==
    /\ Len(game.drag) > 0 /\ game.events < MaxEvents
    /\ game' = [game EXCEPT !.drag = <<>>, !.events = @ + 1]
    /\ UNCHANGED <<gen, play, sol, ord, run, val, day, lin>>

\* emptyCells of handleBlast: the EMPTY cells of playerGrid in row-major order
emptyCells(g) ==
    SelectSeq([i \in 1..(g.puzzle.size * g.puzzle.size) |->
                  <<(i - 1) \div g.puzzle.size, (i - 1) % g.puzzle.size>>],
              LAMBDA rc : g.playerGrid[rc[1]][rc[2]] = EMPTY)

\* emptyCells after the Fisher-Yates shuffle.  Math.random can leave any
\* order; the model follows the rotations of the row-major order
Shuffled(cells, k) == [i \in 1..Len(cells) |-> cells[((i - 1 + k) % Len(cells)) + 1]]

\* the callback handleBlast schedules for a cell: its newState is the
\* solution value of the puzzle of that render
RevealOf(g, cell) ==
    [r |-> cell[1], c |-> cell[2],
     newState |-> IF g.puzzle.grid[cell[1]][cell[2]] = 1 THEN FILLED ELSE CROSSED,
     closure |-> Render(g)]

\* handleBlast: the first three cells of the shuffled emptyCells are
\* scheduled to be revealed after 0, 500 and 1000 ms
handleBlast ==
    /\ game.coins >= BLAST_COST /\ game.status = "playing"
    /\ game.coins > INITIAL_COINS - BLAST_COST * MaxBlasts
    /\ Len(game.pending) = 0 /\ game.events < MaxEvents
    /\ Len(emptyCells(game)) >= 3
    /\ \E k \in 0..(Len(emptyCells(game)) - 1) :
          LET toReveal == SubSeq(Shuffled(emptyCells(game), k), 1, 3)
          IN  game' = [game EXCEPT
                         !.pending = [i \in 1..3 |-> RevealOf(game, toReveal[i])],
                         !.coins = @ - BLAST_COST, !.events = @ + 1]
    /\ UNCHANGED <<gen, play, sol, ord, run, val, day, lin>>

\* the next setTimeout callback of a Blast fires: updateCell(cell.r, cell.c,
\* newState) of the render that scheduled it
RevealFires ==
    /\ Len(game.pending) > 0 /\ game.status /= "crashed"
    /\ LET reveal == Head(game.pending)
       IN  game' = checkWin(updateCell([game EXCEPT !.pending = Tail(@)],
                                       reveal.closure, reveal.r, reveal.c,
                                       reveal.newState))
    /\ UNCHANGED <<gen, play, sol, ord, run, val, day, lin>>

\* the interval of the timer effect: setTimer(elapsed) while playing
TimerTick ==
    /\ game.status = "playing" /\ game.timer < MaxTimer
    /\ game.events < MaxEvents
    /\ game' = [game EXCEPT !.timer = @ + 1, !.events = @ + 1]
    /\ UNCHANGED <<gen, play, sol, ord, run, val, day, lin>>

GameNext ==
    \/ GameStarted \/ NewGame \/ TypedGame \/ ChangeSetting \/ restartCurrentGame
    \/ handleMouseDown \/ handleMouseEnter \/ handleGlobalMouseUp
    \/ handleBlast \/ RevealFires \/ TimerTick

SpecGame == GameInit /\ [][GameNext]_vars

(***************************************************************************)
(* C26: when restartCurrentGame has completed (the startNewGame it called  *)
(* has set the puzzle and the status), the puzzle has the seed, the size,  *)
(* the density range and the grid it had before, the player grid is all    *)
(* EMPTY, the timer is zero and the history is empty.                      *)
(***************************************************************************)
\* the step that ends the startNewGame called by restartCurrentGame
RestartCompletes ==
    /\ game.status = "loading" /\ Len(game.next) > 0
    /\ game.next[1].via = "restart"
    /\ Len(game'.next) = 0

C26_RestartKeepsPuzzle ==
    [][RestartCompletes =>
          /\ game'.puzzle.seed = game.puzzle.seed
          /\ game'.puzzle.size = game.puzzle.size
          /\ DIFFICULTY_CONFIG[game'.puzzle.difficulty] =
                 DIFFICULTY_CONFIG[game.puzzle.difficulty]
          /\ game'.puzzle.grid = game.puzzle.grid
          /\ game'.playerGrid = createEmptyGrid(game.puzzle.size)
          /\ game'.timer = 0
          /\ game'.history = <<>>]_vars

(***************************************************************************)
(* C27: while the status is 'playing', and when the game has been won,     *)
(* replaying the recorded history in order onto an all-EMPTY grid of the   *)
(* puzzle's size gives exactly playerGrid.                                 *)
(***************************************************************************)
C27_HistoryReplaysToGrid ==
    game.status \in {"playing", "won"} =>
        Replay(createEmptyGrid(game.puzzle.size), game.history, 1) = game.playerGrid

(***************************************************************************)
(* C28: a callback of Blast that writes a cell writes the solution value   *)
(* of the puzzle in play at that moment, into a cell of that puzzle, and   *)
(* the puzzle in play is the puzzle the callback was scheduled for.        *)
(***************************************************************************)
\* the step in which the next callback of Blast runs and writes its cell
RevealWrites ==
    /\ Len(game.pending) > 0 /\ game'.pending = Tail(game.pending)
    /\ game'.playerGrid /= game.playerGrid

C28_RevealWritesSolution ==
    [][RevealWrites =>
          LET reveal == Head(game.pending)
          IN  /\ <<reveal.r, reveal.c>> \in GameCells
              /\ game'.playerGrid[reveal.r][reveal.c] =
                     (IF game.puzzle.grid[reveal.r][reveal.c] = 1 THEN FILLED
                      ELSE CROSSED)
              /\ reveal.closure.puzzle = game.puzzle]_vars

=============================================================================
